---- MODULE Spec2Model ----
(***************************************************************************)
(* The Proof-of-Ink upload worker: origin guard, the two upload endpoints  *)
(* and the batch sync that promotes objects from pending/ to approved/ by  *)
(* copy-then-delete against the Apillon storage backend.                   *)
(*                                                                         *)
(* Strings are sequences of tokens; a token stands for a run of characters *)
(* holding neither "." nor "/", and "." and "/" are tokens of their own.   *)
(* Every await on the backend is one atomic step of a connection; the      *)
(* backend is the only state connections share.                            *)
(***************************************************************************)
EXTENDS Integers, Sequences, FiniteSets, TLC

\* ------------------------------------------------------------- bounds ----
\* Longest address list of an ordinary sync request.
MaxLen == 2
\* How many identifiers a long list carries beyond the sync limit.
MaxExtra == 2
\* How many backend calls fail in one run.
MaxFaults == 1
\* How many accounts the submit page sees, and how often its form is sent.
MaxAccounts == 2
MaxClicks == 2
\* How many auto-sync runs a page load can have started when the gallery is
\* handed another api.
MaxRuns == 2

\* -------------------------------------------------- program constants ----
\* addresses.slice(0, 50)
SyncLimit == 50

Conns == {"c1", "c2"}

\* ALLOWED_ORIGINS.split(',').map(o => o.trim())
allowedOrigins == {"https://app"}
NoOrigin == "<none>"
Origins == {"https://app", "https://evil", NoOrigin}

\* ------------------------------------------------------------ strings ----
DOT == "."
SLASH == "/"

\* `${folder}/`
FolderPath(folder) == <<folder, SLASH>>

\* `pending/${fileName}`
PathOf(folder, fileName) == <<folder, SLASH>> \o fileName

\* Positions of token t in s.
Positions(s, t) == {k \in 1..Len(s) : s[k] = t}

SetMax(S) == CHOOSE x \in S : \A y \in S : y <= x
SetMin(S) == CHOOSE x \in S : \A y \in S : x <= y

\* toPath.split('/').pop(): what follows the last "/".
LastSegment(s) ==
  IF Positions(s, SLASH) = {} THEN s
  ELSE SubSeq(s, SetMax(Positions(s, SLASH)) + 1, Len(s))

\* toPath.split('/')[0]: what precedes the first "/".
FirstSegment(s) ==
  IF Positions(s, SLASH) = {} THEN s
  ELSE SubSeq(s, 1, SetMin(Positions(s, SLASH)) - 1)

\* file.name.match(/^(.+)\.([^.]+)$/): the name splits at its last ".", with
\* a non-empty part before it and a non-empty, dot-free part after it.
NameMatches(name) ==
  /\ Positions(name, DOT) # {}
  /\ SetMax(Positions(name, DOT)) > 1
  /\ SetMax(Positions(name, DOT)) < Len(name)

\* the name split at its first "."
MatchAddressAtFirstDot(name) == SubSeq(name, 1, SetMin(Positions(name, DOT)) - 1)

MatchAddress(name) == SubSeq(name, 1, SetMax(Positions(name, DOT)) - 1)
MatchExtension(name) == SubSeq(name, SetMax(Positions(name, DOT)) + 1, Len(name))

\* the list taken whole
SliceAll(s, n) == s

\* addresses.slice(0, 50)
Slice(s, n) == SubSeq(s, 1, IF Len(s) < n THEN Len(s) ELSE n)

\* ------------------------------------------------------------ backend ----
\* A retrieval link names the bytes it serves; NoLink is an object listed
\* without one.
NoLink == "<nolink>"
NoBlob == "<noblob>"

\* An item of the bucket listing: { name, fileUuid, path, link }.
File(name, uuid, path, link) ==
  [name |-> name, fileUuid |-> uuid, path |-> path, link |-> link]

\* DELETE /files/{fileUuid}
RemoveObject(its, uuid) == SelectSeq(its, LAMBDA f : f.fileUuid # uuid)

Exists(its, uuid) == \E k \in 1..Len(its) : its[k].fileUuid = uuid

InFolder(its, folder) ==
  {its[k] : k \in {j \in 1..Len(its) : its[j].path = FolderPath(folder)}}

\* -------------------------------------------------------------- state ----
VARIABLES
  deployment,  \* which worker source serves the requests
  items,       \* backend: the bucket's objects, in listing order
  sessions,    \* backend: upload sessions, indexed by sessionUuid
  lastUuid,    \* backend: the last fileUuid handed out
  inbox,       \* per connection: the requests still to arrive
  pc,          \* per connection: where its handler stands
  request,     \* per connection: the request being handled
  sync,        \* per connection: limitedAddresses, loop index, pendingMap, results
  move,        \* per connection: moveFile's locals
  calls,       \* per connection: the backend calls of the current request
  responses,   \* per connection: the responses returned so far
  faults,      \* how many backend calls have failed so far
  gallery,     \* the gallery page: its state, its queries and its sync run
  migration,   \* the migration script: its locals and its counts
  submit       \* the submit page: its state and the upload it runs

vars == <<deployment, items, sessions, lastUuid, inbox, pc, request, sync,
          move, calls, responses, faults, gallery, migration, submit>>

backendVars == <<items, sessions, lastUuid>>

\* ------------------------------------------------ requests, responses ----
NoAddresses == [kind |-> "absent", list |-> <<>>]
Addresses(l) == [kind |-> "array", list |-> l]
\* a truthy value that is no array
OddAddresses == [kind |-> "other", list |-> <<>>]

\* A parsed JSON body; an absent field is the empty string, 0 or NoAddresses.
NoFields ==
  [json |-> TRUE, fileName |-> <<>>, contentType |-> "", directoryPath |-> "",
   sessionUuid |-> 0, addresses |-> NoAddresses]
\* a body request.json() rejects
BadJson == [NoFields EXCEPT !.json = FALSE]

Req(method, origin, path, body) ==
  [method |-> method, origin |-> origin, path |-> path, body |-> body]

NoRequest == Req("", NoOrigin, "", NoFields)

NoBody == [none |-> TRUE]
NoCors == [methods |-> "", headers |-> "", maxAge |-> 0]

\* jsonResponse(data, status, origin): the origin is echoed when one is given.
jsonResponse(data, status, origin) ==
  [status |-> status, type |-> "json", body |-> data, allowOrigin |-> origin,
   cors |-> NoCors]

\* A rejection nothing catches: the runtime answers, not the worker.
Unhandled(message) ==
  [status |-> 500, type |-> "unhandled", body |-> [exception |-> message],
   allowOrigin |-> NoOrigin, cors |-> NoCors]

Error(e) == [error |-> e]
ErrorDetails(e, d) == [error |-> e, details |-> d]

\* !origin || !allowedOrigins.includes(origin)
OriginDenied(origin) == origin = NoOrigin \/ origin \notin allowedOrigins

\* handleCORS(request, env)
handleCORS(r) ==
  IF OriginDenied(r.origin)
  THEN [status |-> 403, type |-> "empty", body |-> NoBody,
        allowOrigin |-> NoOrigin, cors |-> NoCors]
  ELSE [status |-> 204, type |-> "empty", body |-> NoBody,
        allowOrigin |-> r.origin,
        cors |-> [methods |-> "POST, OPTIONS", headers |-> "Content-Type",
                  maxAge |-> 86400]]

\* What a handler does before its first backend call: a response, or the
\* await it goes on to.
Answer(resp) == [next |-> "idle", response |-> resp]
Await(label) == [next |-> label, response |-> Unhandled(<<>>)]

\* handleInitiateUpload calling the backend before it looks at the fields
InitiateEntryUnchecked(r) ==
  IF ~r.body.json THEN Answer(Unhandled(<<"Unexpected token">>))
  ELSE Await("initiateUpload")

\* handleInitiateUpload up to the call of apillonInitiateUpload
InitiateEntry(r) ==
  IF ~r.body.json THEN Answer(Unhandled(<<"Unexpected token">>))
  ELSE IF r.body.fileName = <<>> \/ r.body.contentType = ""
          \/ r.body.directoryPath = ""
  THEN Answer(jsonResponse(Error("Missing required fields"), 400, r.origin))
  ELSE IF r.body.directoryPath # "pending" /\ r.body.directoryPath # "approved"
  THEN Answer(jsonResponse(Error("Invalid directoryPath"), 400, r.origin))
  ELSE Await("initiateUpload")

\* handleCompleteUpload up to the call of apillonCompleteUpload
CompleteEntry(r) ==
  IF ~r.body.json THEN Answer(Unhandled(<<"Unexpected token">>))
  ELSE IF r.body.sessionUuid = 0
  THEN Answer(jsonResponse(Error("Missing sessionUuid"), 400, r.origin))
  ELSE Await("completeUpload")

\* const addresses = body.addresses || []
AddressesOf(body) ==
  IF body.addresses.kind = "absent" THEN Addresses(<<>>) ELSE body.addresses

\* handleSyncApprovedMembers up to the call of listFilesInFolder
SyncEntry(r) ==
  IF r.method # "POST"
  THEN Answer(jsonResponse(Error("Method not allowed"), 405, r.origin))
  ELSE IF ~r.body.json
  THEN Answer(jsonResponse(
         [success |-> FALSE, error |-> "Sync failed",
          details |-> <<"Unexpected token">>], 500, r.origin))
  ELSE IF AddressesOf(r.body).kind # "array" \/ Len(AddressesOf(r.body).list) = 0
  THEN Answer(jsonResponse(Error("Invalid addresses array"), 400, r.origin))
  ELSE Await("list")

\* fetch(request, env, ctx) of the worker with the sync endpoint
FetchSyncWorker(r) ==
  IF r.method = "OPTIONS" THEN Answer(handleCORS(r))
  ELSE IF OriginDenied(r.origin)
  THEN Answer(jsonResponse(Error("Unauthorized origin"), 403, NoOrigin))
  ELSE IF r.path = "/initiate" THEN InitiateEntry(r)
  ELSE IF r.path = "/complete" THEN CompleteEntry(r)
  ELSE IF r.path = "/sync-approved-members" THEN SyncEntry(r)
  ELSE Answer(jsonResponse(Error("Invalid endpoint"), 404, r.origin))

\* fetch(request, env, ctx) of the upload-only worker
FetchUploadWorker(r) ==
  IF r.method = "OPTIONS" THEN Answer(handleCORS(r))
  ELSE IF r.method # "POST"
  THEN Answer(jsonResponse(Error("Method not allowed"), 405, NoOrigin))
  ELSE IF OriginDenied(r.origin)
  THEN Answer(jsonResponse(Error("Unauthorized origin"), 403, NoOrigin))
  ELSE IF r.path = "/initiate" THEN InitiateEntry(r)
  ELSE IF r.path = "/complete" THEN CompleteEntry(r)
  ELSE Answer(jsonResponse(Error("Invalid endpoint"), 404, r.origin))

Dispatch(dep, r) ==
  IF dep = "sync-worker" THEN FetchSyncWorker(r) ELSE FetchUploadWorker(r)

\* ----------------------------------------------------------- the sync ----
\* the listing taken whole, whatever the folder
listFilesAnywhere(its, folder) ==
  [k \in 1..Len(its) |->
     [name |-> its[k].name, uuid |-> its[k].fileUuid, link |-> its[k].link]]

\* listFilesInFolder(env, folder) on a listing reply: the items whose path is
\* exactly `${folder}/`, as { name, uuid, link }.
listFilesInFolder(its, folder) ==
  LET kept == SelectSeq(its, LAMBDA f : f.path = FolderPath(folder))
  IN [k \in 1..Len(kept) |->
        [name |-> kept[k].name, uuid |-> kept[k].fileUuid, link |-> kept[k].link]]

FileInfo(file) ==
  [fileName |-> file.name, fileUuid |-> file.uuid,
   extension |-> MatchExtension(file.name), link |-> file.link]

\* pendingMap.set(address, ...) for every listed file whose name matches, in
\* listing order: a later file of the same address replaces an earlier one.
pendingMapOf(files) ==
  LET matched == {k \in 1..Len(files) : NameMatches(files[k].name)}
      last(a) == SetMax({k \in matched : MatchAddress(files[k].name) = a})
  IN [a \in {MatchAddress(files[k].name) : k \in matched} |-> FileInfo(files[last(a)])]

EmptyResults == [moved |-> <<>>, skipped |-> <<>>, errors |-> <<>>]

NoSync ==
  [limitedAddresses |-> <<>>, i |-> 0, data |-> <<>>, pendingFiles |-> <<>>,
   pendingMap |-> pendingMapOf(<<>>), results |-> EmptyResults]

NoMove ==
  [toPath |-> <<>>, fileUuid |-> 0, link |-> NoLink, blob |-> NoBlob,
   session |-> 0]

\* The entry of the backend-call log a connection adds.
Call(c, op, reply, arg) ==
  [req |-> Len(responses[c]) + 1, item |-> sync[c].i, op |-> op,
   ok |-> reply # "refused" /\ reply # "malformed", reply |-> reply, arg |-> arg]

Logged(c, op, reply, arg) ==
  calls' = [calls EXCEPT ![c] = Append(@, Call(c, op, reply, arg))]

Outcome(ok) == IF ok THEN "ok" ELSE "refused"

\* A backend call answers; a failing answer to a call that could have
\* succeeded counts as a fault.
Answered(isFault) ==
  /\ isFault => faults < MaxFaults
  /\ faults' = IF isFault THEN faults + 1 ELSE faults

\* The response goes out; the log keeps it with the request it answers.
Respond(c, r, resp) ==
  /\ responses' = [responses EXCEPT ![c] = Append(@,
       [request |-> r, status |-> resp.status, type |-> resp.type,
        body |-> resp.body, allowOrigin |-> resp.allowOrigin, cors |-> resp.cors])]
  /\ pc' = [pc EXCEPT ![c] = "idle"]

\* results.skipped.push({ address, reason: 'No pending image found' })
PushSkipped(res, address) ==
  [res EXCEPT !.skipped =
     Append(@, [address |-> address, reason |-> "No pending image found"])]

\* the moved entry put in front of the list
PushMovedFirst(res, address, fileName) ==
  [res EXCEPT !.moved =
     <<[address |-> address, from |-> PathOf("pending", fileName),
        to |-> PathOf("approved", fileName)]>> \o @]

\* the moved entry with its destination named after the address alone
PushMovedBare(res, address, fileName) ==
  [res EXCEPT !.moved =
     Append(@, [address |-> address, from |-> PathOf("pending", fileName),
                to |-> PathOf("approved", address)])]

\* results.moved.push({ address, from, to })
PushMoved(res, address, fileName) ==
  [res EXCEPT !.moved =
     Append(@, [address |-> address, from |-> PathOf("pending", fileName),
                to |-> PathOf("approved", fileName)])]

\* results.errors.push({ address, error: error.message })
PushError(res, address, message) ==
  [res EXCEPT !.errors = Append(@, [address |-> address, error |-> message])]

\* moveFile's first statement: if (!fileLink) throw new Error(...)
LinkRequired == <<"File link is required to download file">>

\* `for (const address of limitedAddresses)` from address i up to its next
\* await: an address without a pending file is skipped, one whose file has no
\* link is recorded as an error, and the loop stops at the first download it
\* has to wait for, or at its end.
RECURSIVE RunLoop(_)
RunLoop(s) ==
  IF s.i > Len(s.limitedAddresses) THEN [sync |-> s, next |-> "respond"]
  ELSE LET address == s.limitedAddresses[s.i] IN
       IF address \notin DOMAIN s.pendingMap
       THEN RunLoop([s EXCEPT !.results = PushSkipped(@, address), !.i = @ + 1])
       ELSE IF s.pendingMap[address].link = NoLink
       THEN RunLoop([s EXCEPT !.results = PushError(@, address, LinkRequired),
                              !.i = @ + 1])
       ELSE [sync |-> s, next |-> "download"]

\* the move aimed at the rejected folder
MoveOfToRejected(fileInfo) ==
  [NoMove EXCEPT !.toPath = PathOf("rejected", fileInfo.fileName),
                 !.fileUuid = fileInfo.fileUuid,
                 !.link = fileInfo.link]

\* moveFile(env, `pending/${fileName}`, `approved/${fileName}`, fileUuid, link)
MoveOf(fileInfo) ==
  [NoMove EXCEPT !.toPath = PathOf("approved", fileInfo.fileName),
                 !.fileUuid = fileInfo.fileUuid,
                 !.link = fileInfo.link]

\* The handler answering 500 when its results hold an error.
ContinueAllOrNothing(c, s) ==
  LET r == RunLoop(s) IN
  /\ sync' = [sync EXCEPT ![c] = r.sync]
  /\ IF r.next = "respond"
     THEN /\ Respond(c, request[c], jsonResponse(
               [success |-> r.sync.results.errors = <<>>,
                moved |-> r.sync.results.moved,
                skipped |-> r.sync.results.skipped,
                errors |-> r.sync.results.errors],
               IF r.sync.results.errors = <<>> THEN 200 ELSE 500,
               request[c].origin))
          /\ UNCHANGED move
     ELSE /\ move' = [move EXCEPT ![c] =
               MoveOf(r.sync.pendingMap[r.sync.limitedAddresses[r.sync.i]])]
          /\ pc' = [pc EXCEPT ![c] = "download"]
          /\ UNCHANGED responses

\* The handler runs on from loop state s to its next await, or to the
\* response that ends the request.
Continue(c, s) ==
  LET r == RunLoop(s) IN
  /\ sync' = [sync EXCEPT ![c] = r.sync]
  /\ IF r.next = "respond"
     THEN /\ Respond(c, request[c], jsonResponse(
               [success |-> TRUE, moved |-> r.sync.results.moved,
                skipped |-> r.sync.results.skipped,
                errors |-> r.sync.results.errors],
               200, request[c].origin))
          /\ UNCHANGED move
     ELSE /\ move' = [move EXCEPT ![c] =
               MoveOf(r.sync.pendingMap[r.sync.limitedAddresses[r.sync.i]])]
          /\ pc' = [pc EXCEPT ![c] = "download"]
          /\ UNCHANGED responses

\* The loop body without its catch: the error ends the batch in the outer
\* catch.
CaughtOutside(c, message) ==
  /\ Respond(c, request[c], jsonResponse(
       [success |-> FALSE, error |-> "Sync failed", details |-> message],
       500, request[c].origin))
  /\ UNCHANGED <<sync, move>>

\* The catch of the loop body: the error is recorded and the loop goes on.
Caught(c, message) ==
  Continue(c, [sync[c] EXCEPT
                 !.results = PushError(@, sync[c].limitedAddresses[sync[c].i], message),
                 !.i = @ + 1])

\* moveFile returned: the moved entry is pushed and the loop goes on.
Moved(c) ==
  Continue(c, [sync[c] EXCEPT
                 !.results = PushMoved(@, sync[c].limitedAddresses[sync[c].i],
                    sync[c].pendingMap[sync[c].limitedAddresses[sync[c].i]].fileName),
                 !.i = @ + 1])

\* fetch: the request is routed; what needs no backend call is answered here.
fetch(c) ==
  /\ pc[c] = "idle"
  /\ inbox[c] # <<>>
  /\ LET r == Head(inbox[c])
         d == Dispatch(deployment, r)
     IN /\ inbox' = [inbox EXCEPT ![c] = Tail(@)]
        /\ request' = [request EXCEPT ![c] = r]
        /\ sync' = [sync EXCEPT ![c] =
             IF d.next = "list"
             THEN [NoSync EXCEPT
                     !.limitedAddresses = Slice(AddressesOf(r.body).list, SyncLimit)]
             ELSE NoSync]
        /\ move' = [move EXCEPT ![c] = NoMove]
        /\ IF d.next = "idle"
           THEN Respond(c, r, d.response)
           ELSE /\ pc' = [pc EXCEPT ![c] = d.next]
                /\ UNCHANGED responses
  /\ UNCHANGED <<submit, migration, gallery, deployment, backendVars, calls, faults>>

\* The handler taking a refused listing for an empty pending folder.
handleSyncApprovedMembersLenient(c) ==
  /\ pc[c] = "list"
  /\ \E ok \in BOOLEAN :
       /\ Answered(~ok)
       /\ Logged(c, "list", Outcome(ok), 0)
       /\ Continue(c, [sync[c] EXCEPT
            !.data = IF ok THEN items ELSE <<>>,
            !.pendingFiles = IF ok THEN listFilesInFolder(items, "pending") ELSE <<>>,
            !.pendingMap = pendingMapOf(IF ok THEN listFilesInFolder(items, "pending")
                                        ELSE <<>>),
            !.i = 1])
  /\ UNCHANGED <<submit, migration, gallery, deployment, backendVars, inbox, request>>

\* The handler listing the bucket a second time for nothing.
handleSyncApprovedMembersListingTwice(c) ==
  /\ pc[c] = "list"
  /\ Answered(FALSE)
  /\ calls' = [calls EXCEPT ![c] = Append(Append(@, Call(c, "list", "ok", 0)),
                                           Call(c, "list", "ok", 0))]
  /\ Continue(c, [sync[c] EXCEPT
        !.data = items,
        !.pendingFiles = listFilesInFolder(items, "pending"),
        !.pendingMap = pendingMapOf(listFilesInFolder(items, "pending")),
        !.i = 1])
  /\ UNCHANGED <<submit, migration, gallery, deployment, backendVars, inbox, request>>

\* const pendingFiles = await listFilesInFolder(env, 'pending'), and the map
\* built from it; a refused listing ends in the outer catch.
handleSyncApprovedMembers(c) ==
  /\ pc[c] = "list"
  /\ \E ok \in BOOLEAN :
       /\ Answered(~ok)
       /\ Logged(c, "list", Outcome(ok), 0)
       /\ IF ok
          THEN Continue(c, [sync[c] EXCEPT
                 !.data = items,
                 !.pendingFiles = listFilesInFolder(items, "pending"),
                 !.pendingMap = pendingMapOf(listFilesInFolder(items, "pending")),
                 !.i = 1])
          ELSE /\ Respond(c, request[c], jsonResponse(
                    [success |-> FALSE, error |-> "Sync failed",
                     details |-> <<"Failed to list files: ", "503">>],
                    500, request[c].origin))
               /\ UNCHANGED <<sync, move>>
  /\ UNCHANGED <<submit, migration, gallery, deployment, backendVars, inbox, request>>

\* POST /upload: the backend opens a session for the file under the folder
\* and names the fileUuid the object will carry.
apillonInitiateUpload(ss, uuid, fileName, directoryPath, client) ==
  Append(ss, [fileName |-> fileName, path |-> FolderPath(directoryPath),
              fileUuid |-> uuid, written |-> NoBlob, open |-> TRUE,
              client |-> client])

\* const fileName = toPath.split('/').pop() || 'unknown'
TargetName(toPath) ==
  IF LastSegment(toPath) = <<>> THEN <<"unknown">> ELSE LastSegment(toPath)

\* const targetFolder = toPath.split('/')[0]
TargetFolder(toPath) ==
  IF FirstSegment(toPath) = <<>> THEN "" ELSE FirstSegment(toPath)[1]

\* moveFile with the source deleted as soon as its bytes are fetched.
moveFileDownloadThenDelete(c) ==
  /\ pc[c] = "download"
  /\ \E ok \in BOOLEAN :
       /\ Answered(~ok)
       /\ Logged(c, "download", Outcome(ok), move[c].fileUuid)
       /\ IF ok
          THEN /\ move' = [move EXCEPT ![c].blob = move[c].link]
               /\ items' = RemoveObject(items, move[c].fileUuid)
               /\ pc' = [pc EXCEPT ![c] = "initiate"]
               /\ UNCHANGED <<sync, responses>>
          ELSE /\ Caught(c, <<"Failed to download file: ", "Service Unavailable">>)
               /\ UNCHANGED items
  /\ UNCHANGED <<submit, migration, gallery, deployment, sessions, lastUuid, inbox, request>>

\* moveFile step 1: const fileResponse = await fetch(fileLink)
moveFileDownload(c) ==
  /\ pc[c] = "download"
  /\ \E ok \in BOOLEAN :
       /\ Answered(~ok)
       /\ Logged(c, "download", Outcome(ok), move[c].fileUuid)
       /\ IF ok
          THEN /\ move' = [move EXCEPT ![c].blob = move[c].link]
               /\ pc' = [pc EXCEPT ![c] = "initiate"]
               /\ UNCHANGED <<sync, responses>>
          ELSE Caught(c, <<"Failed to download file: ", "Service Unavailable">>)
  /\ UNCHANGED <<submit, migration, gallery, deployment, backendVars, inbox, request>>

\* moveFile step 3: await apillonInitiateUpload(env, fileName, contentType,
\* targetFolder), and the check of the reply's shape
moveFileInitiate(c) ==
  /\ pc[c] = "initiate"
  /\ \E reply \in {"refused", "malformed", "ok"} :
       /\ Answered(reply # "ok")
       /\ Logged(c, "initiate", reply, move[c].fileUuid)
       /\ IF reply = "ok"
          THEN /\ sessions' = apillonInitiateUpload(sessions, lastUuid + 1,
                    TargetName(move[c].toPath), TargetFolder(move[c].toPath), FALSE)
               /\ lastUuid' = lastUuid + 1
               /\ move' = [move EXCEPT ![c].session = Len(sessions) + 1]
               /\ pc' = [pc EXCEPT ![c] = "put"]
               /\ UNCHANGED <<sync, responses>>
          ELSE /\ Caught(c, IF reply = "refused"
                            THEN <<"Apillon initiate upload failed: ", "503">>
                            ELSE <<"Failed to initiate upload to new location">>)
               /\ UNCHANGED <<sessions, lastUuid>>
  /\ UNCHANGED <<submit, migration, gallery, deployment, items, inbox, request>>

\* moveFile step 4: await fetch(uploadUrl, { method: 'PUT', body: fileBlob })
moveFileUpload(c) ==
  /\ pc[c] = "put"
  /\ \E ok \in BOOLEAN :
       /\ Answered(~ok)
       /\ Logged(c, "put", Outcome(ok), move[c].fileUuid)
       /\ IF ok
          THEN /\ sessions' = [sessions EXCEPT ![move[c].session].written = move[c].blob]
               /\ pc' = [pc EXCEPT ![c] = "complete"]
               /\ UNCHANGED <<sync, move, responses>>
          ELSE /\ Caught(c, <<"Failed to upload file: ", "Service Unavailable">>)
               /\ UNCHANGED sessions
  /\ UNCHANGED <<submit, migration, gallery, deployment, items, lastUuid, inbox, request>>

\* POST /upload/{sessionUuid}/end: the answers the backend can give. It
\* finalises only an open session that bytes were written to, and then says
\* so; it can refuse (a non-OK reply), or answer OK without confirming.
EndReplies(ss, s) ==
  IF s \in 1..Len(ss) /\ ss[s].open /\ ss[s].written # NoBlob
  THEN {"refused", "unconfirmed", "confirmed"}
  ELSE {"refused", "unconfirmed"}

\* The bucket after the backend finalised a session: the object appears under
\* the session's folder, replacing an object of the same name there.
Finalised(its, sess) ==
  SelectSeq(its, LAMBDA f : ~(f.name = sess.fileName /\ f.path = sess.path))
    \o <<File(sess.fileName, sess.fileUuid, sess.path, sess.written)>>

\* The backend's side of a completion call.
EndSession(s, reply) ==
  IF reply = "confirmed"
  THEN /\ items' = Finalised(items, sessions[s])
       /\ sessions' = [sessions EXCEPT ![s].open = FALSE]
  ELSE UNCHANGED <<items, sessions>>

\* moveFile step 5 without the throw on a non-OK reply.
moveFileCompleteUnchecked(c) ==
  /\ pc[c] = "complete"
  /\ \E reply \in EndReplies(sessions, move[c].session) :
       /\ Answered(reply # "confirmed")
       /\ Logged(c, "complete", reply, move[c].fileUuid)
       /\ EndSession(move[c].session, reply)
       /\ pc' = [pc EXCEPT ![c] = "delete"]
       /\ UNCHANGED <<sync, move, responses>>
  /\ UNCHANGED <<submit, migration, gallery, deployment, lastUuid, inbox, request>>

\* moveFile step 5: await apillonCompleteUpload(env, sessionUuid); a non-OK
\* reply throws, any OK reply lets moveFile go on.
moveFileComplete(c) ==
  /\ pc[c] = "complete"
  /\ \E reply \in EndReplies(sessions, move[c].session) :
       /\ Answered(reply # "confirmed")
       /\ Logged(c, "complete", reply, move[c].fileUuid)
       /\ EndSession(move[c].session, reply)
       /\ IF reply = "refused"
          THEN Caught(c, <<"Apillon complete upload failed: ", "503">>)
          ELSE /\ pc' = [pc EXCEPT ![c] = "delete"]
               /\ UNCHANGED <<sync, move, responses>>
  /\ UNCHANGED <<submit, migration, gallery, deployment, lastUuid, inbox, request>>

\* DELETE /files/{fileUuid}: the answers the backend can give. The delete of
\* an object that is gone is answered not-found, or OK by a backend whose
\* delete is idempotent.
DeleteReplies(its, uuid) == {"ok", "refused"}

DeleteErrorText(its, uuid) == IF Exists(its, uuid) THEN "503" ELSE "not found"

\* step 6 with a refused delete swallowed: moveFile returns as after an OK.
deleteApillonFileSwallowed(c) ==
  /\ pc[c] = "delete"
  /\ \E reply \in DeleteReplies(items, move[c].fileUuid) :
       /\ Answered(reply # "ok" /\ Exists(items, move[c].fileUuid))
       /\ Logged(c, "delete", reply, move[c].fileUuid)
       /\ items' = IF reply = "ok" THEN RemoveObject(items, move[c].fileUuid) ELSE items
       /\ Moved(c)
  /\ UNCHANGED <<submit, migration, gallery, deployment, sessions, lastUuid, inbox, request>>

\* step 6 with a refused delete escaping every catch: the request dies.
deleteApillonFileCrashing(c) ==
  /\ pc[c] = "delete"
  /\ \E reply \in DeleteReplies(items, move[c].fileUuid) :
       /\ Answered(reply # "ok" /\ Exists(items, move[c].fileUuid))
       /\ Logged(c, "delete", reply, move[c].fileUuid)
       /\ IF reply = "ok"
          THEN /\ items' = RemoveObject(items, move[c].fileUuid)
               /\ Moved(c)
          ELSE /\ Respond(c, request[c], Unhandled(<<"Failed to delete file: ",
                              DeleteErrorText(items, move[c].fileUuid)>>))
               /\ UNCHANGED <<items, sync, move>>
  /\ UNCHANGED <<submit, migration, gallery, deployment, sessions, lastUuid, inbox, request>>

\* step 6 deleting the copy it has just made instead of the source.
deleteApillonFileOfCopy(c) ==
  /\ pc[c] = "delete"
  /\ \E reply \in DeleteReplies(items, sessions[move[c].session].fileUuid) :
       /\ Answered(reply # "ok" /\ Exists(items, sessions[move[c].session].fileUuid))
       /\ Logged(c, "delete", reply, move[c].fileUuid)
       /\ IF reply = "ok"
          THEN /\ items' = RemoveObject(items, sessions[move[c].session].fileUuid)
               /\ Moved(c)
          ELSE /\ Caught(c, <<"Failed to delete file: ",
                              DeleteErrorText(items, sessions[move[c].session].fileUuid)>>)
               /\ UNCHANGED items
  /\ UNCHANGED <<submit, migration, gallery, deployment, sessions, lastUuid, inbox, request>>

\* moveFile step 6: await deleteApillonFile(env, fileUuid); a non-OK reply
\* throws, after an OK reply moveFile returns.
deleteApillonFile(c) ==
  /\ pc[c] = "delete"
  /\ \E reply \in DeleteReplies(items, move[c].fileUuid) :
       /\ Answered(reply # "ok" /\ Exists(items, move[c].fileUuid))
       /\ Logged(c, "delete", reply, move[c].fileUuid)
       /\ IF reply = "ok"
          THEN /\ items' = RemoveObject(items, move[c].fileUuid)
               /\ Moved(c)
          ELSE /\ Caught(c, <<"Failed to delete file: ",
                              DeleteErrorText(items, move[c].fileUuid)>>)
               /\ UNCHANGED items
  /\ UNCHANGED <<submit, migration, gallery, deployment, sessions, lastUuid, inbox, request>>

\* handleInitiateUpload from `await apillonInitiateUpload(...)` on. Nothing
\* catches what the call throws: fetch returns the handler's promise without
\* awaiting it, so its try/catch is left before the promise rejects.
handleInitiateUpload(c) ==
  /\ pc[c] = "initiateUpload"
  /\ \E reply \in {"refused", "malformed", "ok"} :
       /\ Answered(reply # "ok")
       /\ Logged(c, "initiate", reply, 0)
       /\ IF reply = "ok"
          THEN /\ sessions' = apillonInitiateUpload(sessions, lastUuid + 1,
                    request[c].body.fileName, request[c].body.directoryPath, TRUE)
               /\ lastUuid' = lastUuid + 1
               /\ Respond(c, request[c], jsonResponse(
                    [success |-> TRUE, sessionUuid |-> Len(sessions) + 1,
                     uploadUrl |-> Len(sessions) + 1, fileUuid |-> lastUuid + 1],
                    200, request[c].origin))
          ELSE /\ Respond(c, request[c], IF reply = "refused"
                    THEN Unhandled(<<"Apillon initiate upload failed: ", "503">>)
                    ELSE jsonResponse(Error("Failed to initiate upload session"),
                                      500, request[c].origin))
               /\ UNCHANGED <<sessions, lastUuid>>
  /\ UNCHANGED <<submit, migration, gallery, deployment, items, inbox, request, sync, move>>

\* handleCompleteUpload answering 200 to every reply that is not an error
\* status, confirmed or not.
handleCompleteUploadLenient(c) ==
  /\ pc[c] = "completeUpload"
  /\ \E reply \in EndReplies(sessions, request[c].body.sessionUuid) :
       /\ Answered(reply # "confirmed"
                   /\ "confirmed" \in EndReplies(sessions, request[c].body.sessionUuid))
       /\ Logged(c, "complete", reply, request[c].body.sessionUuid)
       /\ EndSession(request[c].body.sessionUuid, reply)
       /\ Respond(c, request[c],
            IF reply = "refused"
            THEN Unhandled(<<"Apillon complete upload failed: ", "503">>)
            ELSE jsonResponse([success |-> TRUE,
                               message |-> "Upload completed successfully"],
                              200, request[c].origin))
  /\ UNCHANGED <<submit, migration, gallery, deployment, lastUuid, inbox, request, sync, move>>

\* handleCompleteUpload from `await apillonCompleteUpload(...)` on.
handleCompleteUpload(c) ==
  /\ pc[c] = "completeUpload"
  /\ \E reply \in EndReplies(sessions, request[c].body.sessionUuid) :
       /\ Answered(reply # "confirmed"
                   /\ "confirmed" \in EndReplies(sessions, request[c].body.sessionUuid))
       /\ Logged(c, "complete", reply, request[c].body.sessionUuid)
       /\ EndSession(request[c].body.sessionUuid, reply)
       /\ Respond(c, request[c],
            IF reply = "refused"
            THEN Unhandled(<<"Apillon complete upload failed: ", "503">>)
            ELSE IF reply = "unconfirmed"
            THEN jsonResponse(Error("Failed to complete upload session"),
                              500, request[c].origin)
            ELSE jsonResponse([success |-> TRUE,
                               message |-> "Upload completed successfully"],
                              200, request[c].origin))
  /\ UNCHANGED <<submit, migration, gallery, deployment, lastUuid, inbox, request, sync, move>>

\* The client that was handed an upload URL writes its file to it.
clientTransfer ==
  /\ \E s \in 1..Len(sessions) :
       /\ sessions[s].client /\ sessions[s].open /\ sessions[s].written = NoBlob
       /\ sessions' = [sessions EXCEPT ![s].written = "bytes-upload"]
  /\ UNCHANGED <<submit, migration, gallery, deployment, items, lastUuid, inbox, pc, request, sync, move,
                 calls, responses, faults>>

\* ------------------------------------------------- the initial states ----
GoodOrigin == "https://app"

A == <<"A">>
B == <<"B">>
Named(address, ext) == address \o <<DOT, ext>>

SyncReq(l) ==
  Req("POST", GoodOrigin, "/sync-approved-members",
      [NoFields EXCEPT !.addresses = Addresses(l)])

InitiateReq(fileName, folder) ==
  Req("POST", GoodOrigin, "/initiate",
      [NoFields EXCEPT !.fileName = fileName, !.contentType = "image/jpeg",
                       !.directoryPath = folder])

CompleteReq(s) ==
  Req("POST", GoodOrigin, "/complete", [NoFields EXCEPT !.sessionUuid = s])

RECURSIVE ListsUpTo(_, _)
ListsUpTo(S, n) ==
  IF n = 0 THEN {<<>>}
  ELSE ListsUpTo(S, n - 1)
         \cup {Append(l, x) : l \in ListsUpTo(S, n - 1), x \in S}

\* The address lists of ordinary sync requests.
SyncLists == ListsUpTo({A, B}, MaxLen) \ {<<>>}

\* The buckets the worker starts on: the placeholder the setup script leaves
\* in pending/, B's pending image, and A's image: pending, pending and
\* approved, pending without a retrieval link, or approved only.
KeepFile == File(<<DOT, "gitkeep">>, 1, FolderPath("pending"), "bytes-keep")
PendingB == File(Named(B, "png"), 2, FolderPath("pending"), "bytes-B")
PendingA == File(Named(A, "jpg"), 3, FolderPath("pending"), "bytes-A")
UnlinkedA == File(Named(A, "jpg"), 3, FolderPath("pending"), NoLink)
ApprovedA == File(Named(A, "jpg"), 4, FolderPath("approved"), "bytes-A0")

Buckets ==
  {<<KeepFile, PendingB, PendingA>>,
   <<KeepFile, PendingB, PendingA, ApprovedA>>,
   <<KeepFile, PendingB, UnlinkedA>>,
   <<KeepFile, PendingB, ApprovedA>>}

\* The gallery page where no page is open.
NoGallery ==
  [chain |-> {}, founderPending |-> FALSE, membersPending |-> FALSE,
   founderHash |-> <<>>, members |-> <<>>, syncAttempted |-> FALSE,
   runs |-> <<>>, allFiles |-> <<>>, addresses |-> <<>>, reload |-> FALSE]

\* The migration script before it runs.
NoMigration ==
  [pc |-> "off", files |-> <<>>, tempDir |-> {}, page |-> 1, allFiles |-> <<>>,
   existingFiles |-> <<>>, i |-> 0, downloadedFiles |-> <<>>,
   downloadFailed |-> 0, filesToSkip |-> 0, filesToUpload |-> 0,
   uploadSuccessful |-> 0, uploadFailed |-> 0, uploadSkipped |-> 0,
   uploadErrors |-> <<>>, session |-> 0, uploads |-> <<>>]

\* The submit page where no page is open: useState's initial values.
NoSubmit ==
  [pc |-> "closed", address |-> <<>>, onChain |-> "neither", accounts |-> 0,
   clicks |-> 0, isMember |-> FALSE, isCandidate |-> FALSE,
   checkingStatus |-> TRUE, uploading |-> FALSE, toast |-> "",
   directoryPath |-> "", awaited |-> 0, sessionUuid |-> 0, uploadUrl |-> 0,
   sent |-> <<>>]

InitWith(dep, bucket, box) ==
  /\ deployment = dep
  /\ items = bucket
  /\ sessions = <<>>
  /\ lastUuid = 4
  /\ inbox = box
  /\ pc = [c \in Conns |-> "idle"]
  /\ request = [c \in Conns |-> NoRequest]
  /\ sync = [c \in Conns |-> NoSync]
  /\ move = [c \in Conns |-> NoMove]
  /\ calls = [c \in Conns |-> <<>>]
  /\ responses = [c \in Conns |-> <<>>]
  /\ faults = 0
  /\ gallery = NoGallery
  /\ migration = NoMigration
  /\ submit = NoSubmit

\* One connection syncs (a list, or the same single address twice in a row)
\* while the other syncs, uploads, or sends a request the guard turns away.
SyncScripts ==
  {<<SyncReq(l)>> : l \in SyncLists}
    \cup {<<SyncReq(<<A>>), SyncReq(<<A>>)>>}

OtherScripts ==
  {<<>>, <<SyncReq(<<A>>)>>,
   <<InitiateReq(Named(A, "jpg"), "pending"), CompleteReq(1)>>,
   <<Req("OPTIONS", GoodOrigin, "/initiate", NoFields)>>,
   <<Req("POST", "https://evil", "/sync-approved-members",
         [NoFields EXCEPT !.addresses = Addresses(<<A>>)])>>}

Init ==
  \E bucket \in Buckets, s1 \in SyncScripts, s2 \in OtherScripts :
    InitWith("sync-worker", bucket, [c \in Conns |-> IF c = "c1" THEN s1 ELSE s2])

\* Any method, origin and path: one connection sends a single request whose
\* body would pass every handler's validation, so that the guard alone
\* decides whether the backend is reached, on either worker.
FullBody ==
  [NoFields EXCEPT !.fileName = Named(A, "jpg"), !.contentType = "image/jpeg",
                   !.directoryPath = "pending", !.sessionUuid = 1,
                   !.addresses = Addresses(<<A, B>>)]

Methods == {"POST", "OPTIONS", "GET", "PUT"}
Paths == {"/initiate", "/complete", "/sync-approved-members", "/other"}

GuardRequests == {Req(m, o, p, FullBody) : m \in Methods, o \in Origins, p \in Paths}

InitGuard ==
  \E dep \in {"sync-worker", "upload-worker"}, r \in GuardRequests,
     s2 \in {<<>>, <<InitiateReq(Named(B, "png"), "approved")>>} :
    InitWith(dep, <<KeepFile, PendingB, PendingA>>,
             [c \in Conns |-> IF c = "c1" THEN <<r>> ELSE s2])

\* Lists around the sync limit: Z, an address with no image anywhere, at every
\* position but two, which hold A and B.
Z == <<"Z">>

LongList(n, p, q) ==
  [k \in 1..n |-> IF k = p THEN A ELSE IF k = q THEN B ELSE Z]

LongLists ==
  {LongList(n, p, q) :
     n \in (SyncLimit - 1)..(SyncLimit + MaxExtra),
     p \in {1, SyncLimit, SyncLimit + 1},
     q \in {SyncLimit - 1, SyncLimit + 1, SyncLimit + MaxExtra}}

InitLimit ==
  \E l \in LongLists,
     s2 \in {<<>>, <<InitiateReq(Named(A, "jpg"), "pending"), CompleteReq(1)>>} :
    InitWith("sync-worker", <<KeepFile, PendingB, PendingA>>,
             [c \in Conns |-> IF c = "c1" THEN <<SyncReq(l)>> ELSE s2])

moveFile(c) ==
  \/ moveFileDownload(c)
  \/ moveFileInitiate(c)
  \/ moveFileUpload(c)
  \/ moveFileComplete(c)
  \/ deleteApillonFile(c)

Next ==
  \/ \E c \in Conns :
       \/ fetch(c)
       \/ handleInitiateUpload(c)
       \/ handleCompleteUpload(c)
       \/ handleSyncApprovedMembers(c)
       \/ moveFile(c)
  \/ clientTransfer

Spec == Init /\ [][Next]_vars

\* The same worker under requests of every method, origin and path.
SpecGuard == InitGuard /\ [][Next]_vars

\* The same worker under address lists around the sync limit.
SpecLimit == InitLimit /\ [][Next]_vars

\* The folders the bucket is set up with.
directories == {"pending", "approved", "rejected"}

\* Bodies of every kind the handlers' validation tells apart: each field
\* present or missing, the folder one of the bucket's, empty or unknown, the
\* addresses missing, no array, empty or a list; and a body that is no JSON.
InitiateBodies ==
  {[NoFields EXCEPT !.fileName = f, !.contentType = t, !.directoryPath = d] :
     f \in {<<>>, Named(A, "jpg")}, t \in {"", "image/jpeg"},
     d \in directories \cup {"", "other"}}

CompleteBodies == {[NoFields EXCEPT !.sessionUuid = u] : u \in 0..2}

SyncBodies ==
  {[NoFields EXCEPT !.addresses = a] :
     a \in {NoAddresses, OddAddresses, Addresses(<<>>), Addresses(<<A>>)}}

ValidationRequests ==
  {Req("POST", GoodOrigin, "/initiate", b) : b \in InitiateBodies \cup {BadJson}}
    \cup {Req("POST", GoodOrigin, "/complete", b) : b \in CompleteBodies \cup {BadJson}}
    \cup {Req("POST", GoodOrigin, "/sync-approved-members", b) :
            b \in SyncBodies \cup {BadJson}}

InitValidation ==
  \E dep \in {"sync-worker", "upload-worker"}, r \in ValidationRequests,
     s2 \in {<<>>, <<InitiateReq(Named(B, "png"), "pending"), CompleteReq(1)>>} :
    InitWith(dep, <<KeepFile, PendingB, PendingA>>,
             [c \in Conns |-> IF c = "c1" THEN <<r>> ELSE s2])

\* The same worker under requests with bodies of every kind.
SpecValidation == InitValidation /\ [][Next]_vars

\* Uploads of the same file name side by side: one client opens a session
\* for A.jpg and sends two completions, each of its own session, the other
\* client's or one the backend never opened; the other client uploads A.jpg
\* to pending as well, or a sync moves pending/A.jpg meanwhile.
SessionIds == 1..3

UploadScripts ==
  {<<InitiateReq(Named(A, "jpg"), f), CompleteReq(s), CompleteReq(t)>> :
     f \in {"pending", "approved"}, s \in SessionIds, t \in SessionIds}

RivalScripts ==
  {<<InitiateReq(Named(A, "jpg"), "pending"), CompleteReq(s)>> : s \in SessionIds}
    \cup {<<SyncReq(<<A>>)>>}

InitUpload ==
  \E s1 \in UploadScripts, s2 \in RivalScripts :
    InitWith("sync-worker", <<KeepFile, PendingB, PendingA>>,
             [c \in Conns |-> IF c = "c1" THEN s1 ELSE s2])

\* The same worker under uploads of one file name side by side.
SpecUpload == InitUpload /\ [][Next]_vars

\* A sync sent again: one connection sends the same list twice in a row,
\* while the other is silent, syncs A as well, or uploads to approved; the
\* pending folder holds A's and B's image, or two images of A under two
\* extensions.
PendingAPng == File(Named(A, "png"), 2, FolderPath("pending"), "bytes-A2")

RetryBuckets == {<<KeepFile, PendingB, PendingA>>, <<KeepFile, PendingA, PendingAPng>>}

RetryScripts == {<<SyncReq(l), SyncReq(l)>> : l \in SyncLists}

InitRetry ==
  \E bucket \in RetryBuckets, s1 \in RetryScripts,
     s2 \in {<<>>, <<SyncReq(<<A>>)>>,
             <<InitiateReq(Named(B, "png"), "approved"), CompleteReq(1)>>} :
    InitWith("sync-worker", bucket, [c \in Conns |-> IF c = "c1" THEN s1 ELSE s2])

\* The same worker under a sync that is sent again.
SpecRetry == InitRetry /\ [][Next]_vars

\* ------------------------------------------------------ the gallery ----
\* The society's founder, and a society of many members.
Founder == <<"F">>

Crowd ==
  <<
     <<"m01">>, <<"m02">>, <<"m03">>, <<"m04">>, <<"m05">>, <<"m06">>,
     <<"m07">>, <<"m08">>, <<"m09">>, <<"m10">>, <<"m11">>, <<"m12">>,
     <<"m13">>, <<"m14">>, <<"m15">>, <<"m16">>, <<"m17">>, <<"m18">>,
     <<"m19">>, <<"m20">>, <<"m21">>, <<"m22">>, <<"m23">>, <<"m24">>,
     <<"m25">>, <<"m26">>, <<"m27">>, <<"m28">>, <<"m29">>, <<"m30">>,
     <<"m31">>, <<"m32">>, <<"m33">>, <<"m34">>, <<"m35">>, <<"m36">>,
     <<"m37">>, <<"m38">>, <<"m39">>, <<"m40">>, <<"m41">>, <<"m42">>,
     <<"m43">>, <<"m44">>, <<"m45">>, <<"m46">>, <<"m47">>, <<"m48">>,
     <<"m49">>, <<"m50">>, <<"m51">>, <<"m52">>, <<"m53">>, <<"m54">>
  >>

\* The order hashes.sort((a, b) => a.localeCompare(b)) puts addresses in.
Alphabet == <<A, B, Founder>> \o Crowd

SortedHashes(S) == SelectSeq(Alphabet, LAMBDA a : a \in S)

\* toSync.slice(0, 50) of the gallery
GallerySyncLimit == 50

\* file.name.replace(/\.(jpg|png|heic|webp)$/i, '')
KnownExtensions == {"jpg", "png", "heic", "webp"}

StripExtension(name) ==
  IF Len(name) >= 2 /\ name[Len(name) - 1] = DOT /\ name[Len(name)] \in KnownExtensions
  THEN SubSeq(name, 1, Len(name) - 2)
  ELSE name

\* file.path === 'pending/' || file.path?.startsWith('pending/')
InPendingPath(path) == Len(path) >= 2 /\ path[1] = "pending" /\ path[2] = SLASH

pendingAddresses(allFiles) ==
  LET kept == SelectSeq(allFiles, LAMBDA f : InPendingPath(f.path))
  IN SelectSeq([k \in 1..Len(kept) |-> StripExtension(kept[k].name)],
               LAMBDA addr : addr # <<>>)

\* members.filter((member) => pendingAddresses.includes(member))
toSync(members, allFiles) ==
  SelectSeq(members, LAMBDA member :
    \E k \in 1..Len(pendingAddresses(allFiles)) : pendingAddresses(allFiles)[k] = member)

\* The page as it loads: both society queries are under way.
OpenGallery(chain) ==
  [NoGallery EXCEPT !.chain = chain, !.founderPending = TRUE, !.membersPending = TRUE]

workerVars ==
  <<deployment, items, sessions, lastUuid, inbox, pc, request, sync, move,
    calls, responses, faults>>

\* society.founder().then((hash) => (founderHash = hash.toString()))
societyFounder ==
  /\ gallery.founderPending
  /\ gallery' = [gallery EXCEPT !.founderPending = FALSE, !.founderHash = Founder]
  /\ UNCHANGED <<workerVars, migration, submit>>

\* society.members.keys().then(...): the members but founderHash, as it is
\* by now, sorted; the auto-sync effect runs on the new member list, and
\* unless the list is empty or syncAttempted is set it starts a run of
\* syncApprovedMembers, which keeps the list it was started on.
societyMembers ==
  /\ gallery.membersPending
  /\ LET hashes == SortedHashes({a \in gallery.chain : a # gallery.founderHash})
     IN gallery' = [gallery EXCEPT
                      !.membersPending = FALSE, !.members = hashes,
                      !.runs = IF hashes # <<>> /\ ~gallery.syncAttempted
                               THEN Append(@, [at |-> "listing", members |-> hashes,
                                               sent |-> 0])
                               ELSE @]
  /\ UNCHANGED <<workerVars, migration, submit>>

\* syncApprovedMembers from `await apillonClient.listFiles()` to the POST of
\* the addresses, or to its end when there is nothing to sync or the listing
\* fails.
syncApprovedMembers ==
  /\ \E k \in 1..Len(gallery.runs), ok \in BOOLEAN :
       /\ gallery.runs[k].at = "listing"
       /\ Answered(~ok)
       /\ IF ok /\ toSync(gallery.runs[k].members, items) # <<>>
          THEN LET addresses == Slice(toSync(gallery.runs[k].members, items),
                                      GallerySyncLimit)
               IN /\ gallery' = [gallery EXCEPT
                       !.allFiles = items, !.addresses = addresses,
                       !.runs[k].at = "waiting",
                       !.runs[k].sent = Len(responses["c1"]) + Len(inbox["c1"])
                                          + (IF pc["c1"] = "idle" THEN 1 ELSE 2)]
                  /\ inbox' = [inbox EXCEPT !["c1"] = Append(@, SyncReq(addresses))]
          ELSE /\ gallery' = [gallery EXCEPT
                                !.allFiles = IF ok THEN items ELSE @,
                                !.runs[k].at = "done", !.syncAttempted = TRUE]
               /\ UNCHANGED inbox
  /\ UNCHANGED <<deployment, items, sessions, lastUuid, pc, request, sync, move,
                 calls, responses, migration, submit>>

\* const result = await response.json(), the toast and the reload it
\* schedules, and finally setSyncAttempted(true)
syncResult ==
  /\ \E k \in 1..Len(gallery.runs) :
       /\ gallery.runs[k].at = "waiting"
       /\ Len(responses["c1"]) >= gallery.runs[k].sent
       /\ LET r == responses["c1"][gallery.runs[k].sent]
          IN gallery' = [gallery EXCEPT
               !.runs[k].at = "done", !.syncAttempted = TRUE,
               !.reload = IF r.type = "json" /\ r.status = 200 /\ r.body.success
                             /\ r.body.moved # <<>>
                          THEN TRUE ELSE @]
  /\ UNCHANGED <<workerVars, migration, submit>>

\* window.location.reload(): the page loads anew.
reload ==
  /\ gallery.reload
  /\ gallery' = OpenGallery(gallery.chain)
  /\ UNCHANGED <<workerVars, migration, submit>>

\* The founder's image in the pending folder, and the images of the crowd.
PendingF == File(Named(Founder, "jpg"), 4, FolderPath("pending"), "bytes-F")

CrowdFile(k) == File(Named(Crowd[k], "jpg"), 4 + k, FolderPath("pending"), NoLink)

InitGalleryWith(chain, bucket, box) ==
  /\ deployment = "sync-worker"
  /\ items = bucket
  /\ sessions = <<>>
  /\ lastUuid = 4 + Len(bucket)
  /\ inbox = [c \in Conns |-> IF c = "c1" THEN <<>> ELSE box]
  /\ pc = [c \in Conns |-> "idle"]
  /\ request = [c \in Conns |-> NoRequest]
  /\ sync = [c \in Conns |-> NoSync]
  /\ move = [c \in Conns |-> NoMove]
  /\ calls = [c \in Conns |-> <<>>]
  /\ responses = [c \in Conns |-> <<>>]
  /\ faults = 0
  /\ gallery = OpenGallery(chain)
  /\ migration = NoMigration
  /\ submit = NoSubmit

\* A society of A, B and the founder, or of B and the founder, whose images
\* are pending, while another client uploads A's image again; or a society
\* of about fifty members whose images are pending.
InitGallery ==
  \/ \E chain \in {{A, B, Founder}, {B, Founder}, {Founder}},
        bucket \in {<<KeepFile, PendingB, PendingA, PendingF>>,
                    <<KeepFile, PendingB, ApprovedA>>},
        box \in {<<>>, <<InitiateReq(Named(A, "jpg"), "pending"), CompleteReq(1)>>} :
       InitGalleryWith(chain, bucket, box)
  \/ \E n \in (GallerySyncLimit - 1)..(GallerySyncLimit + MaxExtra) :
       InitGalleryWith({Crowd[k] : k \in 1..n} \cup {Founder},
                       <<KeepFile>> \o [k \in 1..n |-> CrowdFile(k)], <<>>)

NextGallery ==
  \/ Next
  \/ societyFounder
  \/ societyMembers
  \/ syncApprovedMembers
  \/ syncResult
  \/ reload

\* The gallery page and the worker it calls.
SpecGallery == InitGallery /\ [][NextGallery]_vars

\* The page is handed another api: `society` is another object, so the
\* effect on [society] runs again, with a founderHash of its own, and sends
\* both queries again.
apiChanged ==
  /\ ~gallery.founderPending /\ ~gallery.membersPending
  /\ gallery.chain # {}
  /\ Len(gallery.runs) < MaxRuns
  /\ gallery' = [gallery EXCEPT !.founderPending = TRUE, !.membersPending = TRUE,
                                !.founderHash = <<>>]
  /\ UNCHANGED <<workerVars, migration, submit>>

\* A society of A, B and the founder, or of B and the founder; the images
\* of A and B are pending, or nothing is.
InitReconnect ==
  \E chain \in {{A, B, Founder}, {B, Founder}},
     bucket \in {<<KeepFile, PendingB, PendingA>>, <<KeepFile>>} :
    InitGalleryWith(chain, bucket, <<>>)

NextReconnect ==
  \/ apiChanged
  \/ societyFounder
  \/ societyMembers
  \/ syncApprovedMembers
  \/ syncResult
  \/ reload
  \/ \E c \in Conns :
       \/ fetch(c)
       \/ handleSyncApprovedMembers(c)
       \/ moveFile(c)

\* The gallery page under an api that is replaced while the page is open.
SpecReconnect == InitReconnect /\ [][NextReconnect]_vars

\* ------------------------------------------ the migration from Pinata ----
\* ?limit=100&page=${page}
ListLimit == 100

\* GET /files?limit=100&page=N: the items of the page.
ListPage(its, page) ==
  IF (page - 1) * ListLimit >= Len(its) THEN <<>>
  ELSE SubSeq(its, (page - 1) * ListLimit + 1,
              IF Len(its) < page * ListLimit THEN Len(its) ELSE page * ListLimit)

\* items.filter(item => item.name !== '.gitkeep'), and then item.name
NamesOf(page) ==
  LET kept == SelectSeq(page, LAMBDA f : f.name # <<DOT, "gitkeep">>)
  IN [k \in 1..Len(kept) |-> kept[k].name]

\* a membership test that never finds the name
includesNever(list, x) == FALSE

\* existingFiles.includes(filename)
includes(list, x) == \E k \in 1..Len(list) : list[k] = x

\* Step 9 and the summary: the downloaded files leave the temp directory.
Step9(m) ==
  [m EXCEPT !.tempDir = @ \ {m.downloadedFiles[k] : k \in 1..Len(m.downloadedFiles)},
            !.pc = "summary"]

\* Step 8's loop from entry m.i on, up to the next upload: an entry whose
\* name is among existingFiles is counted as skipped.
RECURSIVE UploadOn(_)
UploadOn(m) ==
  IF m.i > Len(m.downloadedFiles) THEN Step9(m)
  ELSE IF includes(m.existingFiles, m.downloadedFiles[m.i])
       THEN UploadOn([m EXCEPT !.uploadSkipped = @ + 1, !.i = @ + 1])
       ELSE [m EXCEPT !.pc = "initiate"]

\* Step 8 up to its loop: filesToSkip and filesToUpload are counted, and the
\* script returns when there is nothing to upload.
Step8(m) ==
  LET filesToSkip ==
        SelectSeq(m.downloadedFiles, LAMBDA f : includes(m.existingFiles, f))
      filesToUpload ==
        SelectSeq(m.downloadedFiles, LAMBDA f : ~includes(m.existingFiles, f))
      counted == [m EXCEPT !.filesToSkip = Len(filesToSkip),
                           !.filesToUpload = Len(filesToUpload)]
  IN IF Len(filesToUpload) = 0
     THEN [counted EXCEPT !.pc = "nothing"]
     ELSE UploadOn([counted EXCEPT !.i = 1])

\* Step 7's loop from entry m.i on, up to the next download: a file found in
\* the temp directory is taken as downloaded.
RECURSIVE DownloadOn(_)
DownloadOn(m) ==
  IF m.i > Len(m.files) THEN Step8(m)
  ELSE IF m.files[m.i] \in m.tempDir
       THEN DownloadOn([m EXCEPT !.downloadedFiles = Append(@, m.files[m.i]),
                                 !.i = @ + 1])
       ELSE [m EXCEPT !.pc = "download"]

\* catch (error) in Step 8's loop
UploadFailed(m, message) ==
  UploadOn([m EXCEPT !.uploadFailed = @ + 1,
                     !.uploadErrors = Append(@, [filename |-> m.downloadedFiles[m.i],
                                                 error |-> message]),
                     !.i = @ + 1])

\* uploadToApillon returned
UploadDone(m) == UploadOn([m EXCEPT !.uploadSuccessful = @ + 1, !.i = @ + 1])

HasName(its, name) == \E k \in 1..Len(its) : its[k].name = name

\* The file lists Step 4 can end with, and what an earlier run can have left
\* in the temp directory.
MigrationLists ==
  {<<Named(A, "jpg")>>, <<Named(A, "jpg"), Named(B, "jpg")>>,
   <<Named(B, "jpg"), Named(A, "jpg")>>, <<Named(B, "jpg"), Named(B, "jpg")>>}

TempDirs == {{}, {Named(A, "jpg")}}

\* main, Steps 1 to 4: the list of the files to migrate is there.
main ==
  /\ migration.pc = "off"
  /\ \E files \in MigrationLists, tempDir \in TempDirs :
       migration' = [migration EXCEPT !.pc = "list", !.files = files,
                                      !.tempDir = tempDir]
  /\ UNCHANGED <<workerVars, gallery, submit>>

\* getApillonFiles, one page a step: a failing request ends it with [].
getApillonFiles ==
  /\ migration.pc = "list"
  /\ \E ok \in BOOLEAN :
       /\ Answered(~ok)
       /\ IF ok
          THEN LET page == ListPage(items, migration.page)
                   allFiles == migration.allFiles \o NamesOf(page)
                   hasMore == Len(allFiles) < Len(items) /\ Len(page) > 0
               IN migration' =
                    IF hasMore
                    THEN [migration EXCEPT !.allFiles = allFiles, !.page = @ + 1]
                    ELSE DownloadOn([migration EXCEPT
                                       !.allFiles = allFiles, !.page = @ + 1,
                                       !.existingFiles = allFiles, !.i = 1])
          ELSE migration' = DownloadOn([migration EXCEPT !.existingFiles = <<>>,
                                                         !.i = 1])
  /\ UNCHANGED <<deployment, items, sessions, lastUuid, inbox, pc, request, sync,
                 move, calls, responses, gallery, submit>>

\* await downloadFromIPFS(folderHash, filename, tempDir)
downloadFromIPFS ==
  /\ migration.pc = "download"
  /\ \E ok \in BOOLEAN :
       /\ Answered(~ok)
       /\ LET filename == migration.files[migration.i]
          IN migration' = DownloadOn(
               IF ok
               THEN [migration EXCEPT !.tempDir = @ \cup {filename},
                                      !.downloadedFiles = Append(@, filename),
                                      !.i = @ + 1]
               ELSE [migration EXCEPT !.downloadFailed = @ + 1, !.i = @ + 1])
  /\ UNCHANGED <<deployment, items, sessions, lastUuid, inbox, pc, request, sync,
                 move, calls, responses, gallery, submit>>

\* uploadToApillon step 1: POST /upload for the file, under approved
uploadInitiate ==
  /\ migration.pc = "initiate"
  /\ \E ok \in BOOLEAN :
       /\ Answered(~ok)
       /\ IF ok
          THEN /\ sessions' = apillonInitiateUpload(sessions, lastUuid + 1,
                                migration.downloadedFiles[migration.i],
                                "approved", FALSE)
               /\ lastUuid' = lastUuid + 1
               /\ migration' = [migration EXCEPT !.session = Len(sessions) + 1,
                                                 !.pc = "put"]
          ELSE /\ migration' = UploadFailed(migration, "Failed to initiate upload")
               /\ UNCHANGED <<sessions, lastUuid>>
  /\ UNCHANGED <<deployment, items, inbox, pc, request, sync, move, calls,
                 responses, gallery, submit>>

\* uploadToApillon step 2: PUT of the file to the signed URL
uploadPut ==
  /\ migration.pc = "put"
  /\ \E ok \in BOOLEAN :
       /\ Answered(~ok)
       /\ IF ok
          THEN /\ sessions' = [sessions EXCEPT ![migration.session].written = "bytes-pinata"]
               /\ migration' = [migration EXCEPT !.pc = "end"]
          ELSE /\ migration' = UploadFailed(migration, "Failed to upload file")
               /\ UNCHANGED sessions
  /\ UNCHANGED <<deployment, items, lastUuid, inbox, pc, request, sync, move,
                 calls, responses, gallery, submit>>

\* uploadToApillon step 3: POST /upload/{sessionUuid}/end; the file counts as
\* uploaded on any OK reply. The log of uploads keeps whether the bucket
\* held the name when the upload was completed.
uploadEnd ==
  /\ migration.pc = "end"
  /\ \E reply \in EndReplies(sessions, migration.session) :
       /\ Answered(reply # "confirmed")
       /\ EndSession(migration.session, reply)
       /\ migration' =
            IF reply = "refused"
            THEN UploadFailed(migration, "Failed to complete upload")
            ELSE UploadDone([migration EXCEPT !.uploads = Append(@,
                   [filename |-> migration.downloadedFiles[migration.i],
                    existed |-> HasName(items, migration.downloadedFiles[migration.i])])])
  /\ UNCHANGED <<deployment, lastUuid, inbox, pc, request, sync, move, calls,
                 responses, gallery, submit>>

\* The buckets the migration finds: the placeholder alone, or with A's image
\* approved or pending; or A's image alone.
MigrationBuckets ==
  {<<KeepFile>>, <<KeepFile, ApprovedA>>, <<KeepFile, PendingA>>, <<ApprovedA>>}

InitMigration ==
  \E bucket \in MigrationBuckets :
    InitWith("sync-worker", bucket, [c \in Conns |-> <<>>])

NextMigration ==
  \/ main
  \/ getApillonFiles
  \/ downloadFromIPFS
  \/ uploadInitiate
  \/ uploadPut
  \/ uploadEnd

\* The migration script, alone on the bucket.
SpecMigration == InitMigration /\ [][NextMigration]_vars

\* ------------------------------------------- buckets of every shape ----
\* What a listing can hold beside the placeholder and B's pending image: A's
\* image under a recorded path of every kind (none, a folder name without
\* its "/", a nested sub-path, another folder, pending/), or an object of
\* pending/ whose name has two dots, no dot, nothing after its dot or
\* nothing before it.
OddObjects ==
  {File(Named(A, "jpg"), 3, path, "bytes-A") :
     path \in {<<>>, <<"pending">>, <<"pending", SLASH, "sub", SLASH>>,
               FolderPath("approved"), FolderPath("rejected"),
               FolderPath("pending")}}
    \cup {File(name, 3, FolderPath("pending"), "bytes-A") :
            name \in {<<"A", DOT, "b", DOT, "jpg">>, A, <<"A", DOT>>,
                      <<DOT, "jpg">>}}

\* One sync request on such a bucket, which also holds an image of A that is
\* approved or rejected; the addresses are A, "A.b", B or the empty string.
\* The other connection is silent, or uploads A's image to pending/.
InitBucket ==
  \E f \in OddObjects,
     g \in {ApprovedA, File(Named(A, "jpg"), 4, FolderPath("rejected"), "bytes-A0")},
     l \in {<<A>>, <<<<"A", DOT, "b">>>>, <<<<>>>>, <<A, B>>, <<B, <<"A", DOT, "b">>>>},
     s2 \in {<<>>, <<InitiateReq(Named(A, "jpg"), "pending"), CompleteReq(1)>>} :
    InitWith("sync-worker", <<KeepFile, PendingB, f, g>>,
             [c \in Conns |-> IF c = "c1" THEN <<SyncReq(l)>> ELSE s2])

SpecBucket == InitBucket /\ [][Next]_vars

\* ------------------------------------------- a caller that retries ----
\* The caller sends its sync again once the last one was answered, for A
\* alone or for A after another member; it keeps the latest answer only, so
\* the logs start over with each sync.
resync ==
  /\ pc["c1"] = "idle" /\ inbox["c1"] = <<>>
  /\ \E l \in {<<A>>, <<B, A>>} :
       inbox' = [inbox EXCEPT !["c1"] = <<SyncReq(l)>>]
  /\ calls' = [calls EXCEPT !["c1"] = <<>>]
  /\ responses' = [responses EXCEPT !["c1"] = <<>>]
  /\ UNCHANGED <<deployment, backendVars, pc, request, sync, move, faults,
                 gallery, migration, submit>>

\* A's image is pending, or pending and approved as a refused delete leaves
\* it.
InitRetrying ==
  \E bucket \in {<<KeepFile, PendingB, PendingA>>,
                 <<KeepFile, PendingB, PendingA, ApprovedA>>} :
    InitWith("sync-worker", bucket, [c \in Conns |-> <<>>])

NextRetrying ==
  \/ resync
  \/ \E c \in Conns :
       \/ fetch(c)
       \/ handleSyncApprovedMembers(c)
       \/ moveFile(c)

\* The sync worker under a caller that keeps sending the sync of A; every
\* request that was sent is handled, and every backend call is answered.
SpecRetrying == InitRetrying /\ [][NextRetrying]_vars /\ WF_vars(NextRetrying)

\* ------------------------------------------------- the submit page ----
\* The wallet hands the page an account: the effect on [api, activeAccount]
\* runs checkMembershipStatus, and what the last check left in isMember and
\* isCandidate stays until this one sets it.
activeAccount ==
  /\ submit.pc \in {"closed", "ready"}
  /\ submit.accounts < MaxAccounts
  /\ \E address \in {A, B}, onChain \in {"member", "candidate", "neither"} :
       submit' = [submit EXCEPT
                    !.pc = "members", !.address = address, !.onChain = onChain,
                    !.accounts = @ + 1, !.checkingStatus = TRUE]
  /\ UNCHANGED <<workerVars, gallery, migration>>

\* checkMembershipStatus: the members query, setIsMember, the candidates
\* query, setIsCandidate; a query that fails ends the check in the silent
\* catch, and finally checkingStatus is cleared.
checkMembershipStatus ==
  /\ \E ok \in BOOLEAN :
       \/ /\ submit.pc = "members"
          /\ submit' = IF ok
               THEN [submit EXCEPT !.isMember = (submit.onChain = "member"),
                                   !.pc = "candidates"]
               ELSE [submit EXCEPT !.checkingStatus = FALSE, !.pc = "ready"]
       \/ /\ submit.pc = "candidates"
          /\ submit' = [submit EXCEPT
               !.isCandidate = IF ok THEN submit.onChain = "candidate" ELSE @,
               !.checkingStatus = FALSE, !.pc = "ready"]
  /\ UNCHANGED <<workerVars, gallery, migration>>

\* The end of handleSubmit: the toast, and finally setUploading(false).
Settled(s, toast) == [s EXCEPT !.uploading = FALSE, !.toast = toast, !.pc = "ready"]

\* handleSubmit, on a form the page has enabled: the eligibility test and
\* setUploading(true); then the listing, the replace confirmation, the
\* choice of the folder and uploadFile's POST /initiate. A file exists in a
\* folder when file.name === fileName && (file.path === 'approved/' ||
\* file.path?.startsWith('approved/')).
handleSubmit ==
  \/ /\ submit.pc = "ready"
     /\ submit.clicks < MaxClicks
     /\ submit' = IF ~submit.isCandidate /\ ~submit.isMember
                  THEN [submit EXCEPT !.clicks = @ + 1, !.toast = "not eligible"]
                  ELSE [submit EXCEPT !.clicks = @ + 1, !.toast = "",
                                      !.uploading = TRUE, !.pc = "listing"]
     /\ UNCHANGED <<workerVars, gallery, migration>>
  \/ /\ submit.pc = "listing"
     /\ \E ok \in BOOLEAN, confirmed \in BOOLEAN :
          LET fileName == Named(submit.address, "jpg")
              Existing(folder) ==
                \E k \in 1..Len(items) :
                  /\ items[k].name = fileName
                  /\ Len(items[k].path) >= 2
                  /\ items[k].path[1] = folder /\ items[k].path[2] = SLASH
              existingApproved == Existing("approved")
              existingPending == Existing("pending")
              directoryPath == IF existingApproved \/ submit.isMember
                               THEN "approved" ELSE "pending"
          IN /\ Answered(~ok)
             /\ IF ~ok
                THEN /\ submit' = Settled(submit, "Upload failed")
                     /\ UNCHANGED inbox
                ELSE IF (existingApproved \/ existingPending) /\ ~confirmed
                THEN /\ submit' = [submit EXCEPT !.uploading = FALSE, !.pc = "ready"]
                     /\ UNCHANGED inbox
                ELSE /\ submit' = [submit EXCEPT
                          !.directoryPath = directoryPath, !.pc = "initiate",
                          !.awaited = Len(responses["c2"]) + Len(inbox["c2"]) + 1,
                          !.sent = Append(@, [op |-> "initiate", arg |-> directoryPath])]
                     /\ inbox' = [inbox EXCEPT !["c2"] =
                          Append(@, InitiateReq(fileName, directoryPath))]
     /\ UNCHANGED <<deployment, backendVars, pc, request, sync, move, calls,
                    responses, gallery, migration>>

\* uploadFile going on to POST /complete whatever the PUT was answered.
uploadFileCompletingAnyway ==
  \/ /\ submit.pc = "initiate"
     /\ Len(responses["c2"]) >= submit.awaited
     /\ LET r == responses["c2"][submit.awaited]
        IN submit' = IF r.status = 200
                     THEN [submit EXCEPT !.sessionUuid = r.body.sessionUuid,
                                         !.uploadUrl = r.body.uploadUrl,
                                         !.pc = "put"]
                     ELSE Settled(submit, "Upload failed")
     /\ UNCHANGED <<workerVars, gallery, migration>>
  \/ /\ submit.pc = "put"
     /\ \E ok \in BOOLEAN :
          /\ Answered(~ok)
          /\ IF ok
             THEN /\ sessions' = [sessions EXCEPT
                       ![submit.uploadUrl].written = "bytes-upload"]
                  /\ submit' = [submit EXCEPT
                       !.pc = "wait",
                       !.sent = Append(@, [op |-> "put", arg |-> submit.uploadUrl])]
             ELSE /\ submit' = [submit EXCEPT
                       !.pc = "wait",
                       !.sent = Append(@, [op |-> "put", arg |-> submit.uploadUrl])]
                  /\ UNCHANGED sessions
     /\ UNCHANGED <<deployment, items, lastUuid, inbox, pc, request, sync, move,
                    calls, responses, gallery, migration>>
  \/ /\ submit.pc = "wait"
     /\ submit' = [submit EXCEPT
          !.pc = "complete",
          !.awaited = Len(responses["c2"]) + Len(inbox["c2"]) + 1,
          !.sent = Append(@, [op |-> "complete", arg |-> submit.sessionUuid])]
     /\ inbox' = [inbox EXCEPT !["c2"] = Append(@, CompleteReq(submit.sessionUuid))]
     /\ UNCHANGED <<deployment, backendVars, pc, request, sync, move, calls,
                    responses, faults, gallery, migration>>
  \/ /\ submit.pc = "complete"
     /\ Len(responses["c2"]) >= submit.awaited
     /\ submit' = Settled(submit,
          IF responses["c2"][submit.awaited].status = 200
          THEN "Upload successful" ELSE "Upload successful (processing...)")
     /\ UNCHANGED <<workerVars, gallery, migration>>

\* apillonClient.uploadFile from the answer to POST /initiate on: the PUT to
\* the upload URL, the two seconds' wait and POST /complete, and what
\* handleSubmit does with the result or the error.
uploadFile ==
  \/ /\ submit.pc = "initiate"
     /\ Len(responses["c2"]) >= submit.awaited
     /\ LET r == responses["c2"][submit.awaited]
        IN submit' = IF r.status = 200
                     THEN [submit EXCEPT !.sessionUuid = r.body.sessionUuid,
                                         !.uploadUrl = r.body.uploadUrl,
                                         !.pc = "put"]
                     ELSE Settled(submit, "Upload failed")
     /\ UNCHANGED <<workerVars, gallery, migration>>
  \/ /\ submit.pc = "put"
     /\ \E ok \in BOOLEAN :
          /\ Answered(~ok)
          /\ IF ok
             THEN /\ sessions' = [sessions EXCEPT
                       ![submit.uploadUrl].written = "bytes-upload"]
                  /\ submit' = [submit EXCEPT
                       !.pc = "wait",
                       !.sent = Append(@, [op |-> "put", arg |-> submit.uploadUrl])]
             ELSE /\ submit' = Settled([submit EXCEPT
                       !.sent = Append(@, [op |-> "put", arg |-> submit.uploadUrl])],
                       "Upload failed")
                  /\ UNCHANGED sessions
     /\ UNCHANGED <<deployment, items, lastUuid, inbox, pc, request, sync, move,
                    calls, responses, gallery, migration>>
  \/ /\ submit.pc = "wait"
     /\ submit' = [submit EXCEPT
          !.pc = "complete",
          !.awaited = Len(responses["c2"]) + Len(inbox["c2"]) + 1,
          !.sent = Append(@, [op |-> "complete", arg |-> submit.sessionUuid])]
     /\ inbox' = [inbox EXCEPT !["c2"] = Append(@, CompleteReq(submit.sessionUuid))]
     /\ UNCHANGED <<deployment, backendVars, pc, request, sync, move, calls,
                    responses, faults, gallery, migration>>
  \/ /\ submit.pc = "complete"
     /\ Len(responses["c2"]) >= submit.awaited
     /\ submit' = Settled(submit,
          IF responses["c2"][submit.awaited].status = 200
          THEN "Upload successful" ELSE "Upload successful (processing...)")
     /\ UNCHANGED <<workerVars, gallery, migration>>

\* The bucket the page finds: nothing of A's, A's image pending, approved,
\* or both.
InitSubmit ==
  \E dep \in {"sync-worker", "upload-worker"},
     bucket \in {<<KeepFile, PendingB>>, <<KeepFile, PendingB, PendingA>>,
                 <<KeepFile, PendingB, ApprovedA>>,
                 <<KeepFile, PendingB, PendingA, ApprovedA>>} :
    InitWith(dep, bucket, [c \in Conns |-> <<>>])

NextSubmit ==
  \/ activeAccount
  \/ checkMembershipStatus
  \/ handleSubmit
  \/ uploadFile
  \/ \E c \in Conns :
       \/ fetch(c)
       \/ handleInitiateUpload(c)
       \/ handleCompleteUpload(c)

\* The submit page and the worker it uploads through.
SpecSubmit == InitSubmit /\ [][NextSubmit]_vars

\* ------------------------------------------------------------- claims ----
\* The backend calls connection c made for item k of its n-th request.
CallsFor(c, n, k) == SelectSeq(calls[c], LAMBDA x : x.req = n /\ x.item = k)

SameMove(x, y) == x.req = y.req /\ x.item = y.item

IsSyncResult(r) ==
  r.request.path = "/sync-approved-members" /\ r.status = 200 /\ r.type = "json"

AddressesIn(entries) == {entries[k].address : k \in 1..Len(entries)}

Elements(l) == {l[k] : k \in 1..Len(l)}

\* limitedAddresses of the request a response answers
Processed(r) == Slice(AddressesOf(r.request.body).list, SyncLimit)

\* C2: in every sync result each processed identifier appears in exactly one
\* of moved, skipped and errors: the three lists cover the processed
\* identifiers and no identifier is in two of them.
C2_ExactlyOneList ==
  \A c \in Conns : \A n \in 1..Len(responses[c]) :
    IsSyncResult(responses[c][n]) =>
      LET b == responses[c][n].body IN
      /\ AddressesIn(b.moved) \cup AddressesIn(b.skipped) \cup AddressesIn(b.errors)
           = Elements(Processed(responses[c][n]))
      /\ AddressesIn(b.moved) \cap AddressesIn(b.skipped) = {}
      /\ AddressesIn(b.moved) \cap AddressesIn(b.errors) = {}
      /\ AddressesIn(b.skipped) \cap AddressesIn(b.errors) = {}

CopySteps == {"download", "initiate", "put", "complete"}

\* A call of steps 1-4 that failed is the last call of its move: no delete
\* (and no other call) follows it for the same item.
C3_FailedMoveStops ==
  \A c \in Conns : \A j \in 1..Len(calls[c]) :
    (calls[c][j].op \in CopySteps /\ ~calls[c][j].ok /\ calls[c][j].item > 0) =>
      \A k \in (j + 1)..Len(calls[c]) : ~SameMove(calls[c][k], calls[c][j])

\* Steps 1-4 of a move, whatever their answer, leave every object of the
\* pending folder as it was.
C3_CopyKeepsPending ==
  \A c \in Conns :
    (pc[c] \in CopySteps /\ calls'[c] # calls[c]) =>
      InFolder(items', "pending") = InFolder(items, "pending")

NoCallsFor(c, n) == \A j \in 1..Len(calls[c]) : calls[c][j].req # n

\* C4: a request whose origin is missing or not allow-listed is answered 403,
\* whatever its method and path (a non-preflight request to /initiate with
\* the body {error: "Unauthorized origin"}), and no backend call is made for
\* it.
C4_DeniedOriginGets403 ==
  \A c \in Conns :
    /\ pc[c] # "idle" => ~OriginDenied(request[c].origin)
    /\ \A n \in 1..Len(responses[c]) :
         OriginDenied(responses[c][n].request.origin) =>
           /\ responses[c][n].status = 403
           /\ NoCallsFor(c, n)
           /\ (responses[c][n].request.path = "/initiate"
                 /\ responses[c][n].request.method # "OPTIONS")
                => (responses[c][n].type = "json"
                      /\ responses[c][n].body = Error("Unauthorized origin"))

\* The n-th request of connection c, and the result lists it has so far.
RequestOf(c, n) ==
  IF n <= Len(responses[c]) THEN responses[c][n].request ELSE request[c]

ResultsOf(c, n) ==
  IF n > Len(responses[c]) THEN sync[c].results
  ELSE IF IsSyncResult(responses[c][n])
  THEN [moved |-> responses[c][n].body.moved,
        skipped |-> responses[c][n].body.skipped,
        errors |-> responses[c][n].body.errors]
  ELSE EmptyResults

AddressAt(c, x) == Processed([request |-> RequestOf(c, x.req)])[x.item]

\* The message of the error a refused call of a move raises.
Thrown(x) ==
  IF x.op = "download" THEN <<"Failed to download file: ", "Service Unavailable">>
  ELSE IF x.op = "initiate" /\ x.reply = "refused"
  THEN <<"Apillon initiate upload failed: ", "503">>
  ELSE IF x.op = "initiate" THEN <<"Failed to initiate upload to new location">>
  ELSE IF x.op = "put" THEN <<"Failed to upload file: ", "Service Unavailable">>
  ELSE IF x.op = "complete" THEN <<"Apillon complete upload failed: ", "503">>
  ELSE <<"Failed to delete file: ", "503">>

ThrownNotFound == <<"Failed to delete file: ", "not found">>

HasEntry(entries, e) == \E k \in 1..Len(entries) : entries[k] = e

Total(res) == Len(res.moved) + Len(res.skipped) + Len(res.errors)

Reported(res, a) ==
  Cardinality({k \in 1..Len(res.moved) : res.moved[k].address = a})
    + Cardinality({k \in 1..Len(res.skipped) : res.skipped[k].address = a})
    + Cardinality({k \in 1..Len(res.errors) : res.errors[k].address = a})

Occurrences(l, a) == Cardinality({k \in 1..Len(l) : l[k] = a})

FirstN(l, n) == [k \in 1..(IF Len(l) < n THEN Len(l) ELSE n) |-> l[k]]

IsSyncRequest(r) ==
  /\ r.path = "/sync-approved-members" /\ r.method = "POST"
  /\ ~OriginDenied(r.origin) /\ r.body.json
  /\ r.body.addresses.kind = "array" /\ r.body.addresses.list # <<>>

\* C6: a sync never processes more than 50 identifiers. Of a longer list the
\* first 50 are processed, each reported as often as it occurs among them;
\* what follows them is not reported and no backend call is made for it; and
\* the request is not rejected: it is answered 200 unless the listing fails.
C6_AtMostFifty ==
  \A c \in Conns :
    /\ Len(sync[c].limitedAddresses) <= SyncLimit
    /\ \A j \in 1..Len(calls[c]) : calls[c][j].item <= SyncLimit
    /\ \A n \in 1..Len(responses[c]) :
         IsSyncRequest(responses[c][n].request) =>
           LET r == responses[c][n]
               l == r.request.body.addresses.list
           IN /\ \/ r.status = 200
                 \/ /\ r.status = 500
                    /\ \E j \in 1..Len(calls[c]) :
                         calls[c][j].req = n /\ calls[c][j].op = "list" /\ ~calls[c][j].ok
              /\ r.status = 200 =>
                   /\ Total(ResultsOf(c, n)) = Len(FirstN(l, SyncLimit))
                   /\ \A a \in Elements(l) :
                        Reported(ResultsOf(c, n), a) = Occurrences(FirstN(l, SyncLimit), a)

\* A list longer than the limit was answered 200; A, the address after the
\* limit, is not reported and its image is still pending.
C6_Witness ==
  \E c \in Conns : \E n \in 1..Len(responses[c]) :
    /\ IsSyncResult(responses[c][n])
    /\ Len(responses[c][n].request.body.addresses.list) > SyncLimit
    /\ responses[c][n].request.body.addresses.list[SyncLimit + 1] = A
    /\ Reported(ResultsOf(c, n), A) = 0
    /\ PendingA \in InFolder(items, "pending")

\* The request connection c is handling, or has handled last.
CurrentReq(c) == IF pc[c] = "idle" THEN Len(responses[c]) ELSE Len(responses[c]) + 1

\* The listing held an object of the pending folder whose name gives address a.
ListedPending(data, a) ==
  \E k \in 1..Len(data) :
    /\ data[k].path = FolderPath("pending")
    /\ NameMatches(data[k].name) /\ MatchAddress(data[k].name) = a

SkippedEntry(a) == [address |-> a, reason |-> "No pending image found"]

\* Connection c sent the same single address twice in a row, alone and with
\* no backend call failing, and the first request found the image with its
\* retrieval link.
TwiceInARow(c, a) ==
  /\ Len(responses[c]) = 2
  /\ responses[c][1].request = SyncReq(<<a>>)
  /\ responses[c][2].request = SyncReq(<<a>>)
  /\ faults = 0
  /\ \A d \in Conns \ {c} : calls[d] = <<>>
  /\ \E j \in 1..Len(calls[c]) : calls[c][j].req = 1 /\ calls[c][j].op = "download"

\* C7: promotion is idempotent. Of two syncs in a row of the same single
\* matched identifier on a healthy backend the first reports it in moved and
\* the second in skipped; and an identifier with no object in the pending
\* folder when the sync lists it (so also one whose object is in approved
\* only) is reported in skipped at each of its positions, with no download,
\* initiate, transfer, complete or delete call.
C7_PromotionIsIdempotent ==
  \A c \in Conns :
    /\ \A a \in {A, B} :
         TwiceInARow(c, a) =>
           /\ IsSyncResult(responses[c][1]) /\ IsSyncResult(responses[c][2])
           /\ AddressesIn(responses[c][1].body.moved) = {a}
           /\ Total(ResultsOf(c, 1)) = 1
           /\ responses[c][2].body.skipped = <<SkippedEntry(a)>>
           /\ Total(ResultsOf(c, 2)) = 1
    /\ sync[c].i >= 1 =>
         \A k \in 1..(sync[c].i - 1) :
           ~ListedPending(sync[c].data, sync[c].limitedAddresses[k]) =>
             /\ CallsFor(c, CurrentReq(c), k) = <<>>
             /\ Reported(sync[c].results, sync[c].limitedAddresses[k])
                  = Occurrences(FirstN(sync[c].limitedAddresses, sync[c].i - 1),
                                sync[c].limitedAddresses[k])
             /\ \A e \in 1..Len(sync[c].results.moved) :
                  sync[c].results.moved[e].address # sync[c].limitedAddresses[k]
             /\ \A e \in 1..Len(sync[c].results.errors) :
                  sync[c].results.errors[e].address # sync[c].limitedAddresses[k]

\* Two syncs of A in a row: moved by the first, and skipped by the second
\* with A's image in approved and not in pending.
C7_Witness ==
  /\ TwiceInARow("c1", A)
  /\ \E f \in InFolder(items, "approved") : f.name = Named(A, "jpg")
  /\ \A f \in InFolder(items, "pending") : f.name # Named(A, "jpg")
  /\ responses["c1"][2].body.skipped = <<SkippedEntry(A)>>

\* The entries of a result are those the claim describes: a skipped entry for
\* an address the listing has no pending object for, with the given reason,
\* and a moved entry from pending/<name> to approved/<name> for a listed
\* pending object <name> of that address.
EntriesAre(c, reason) ==
  /\ \A e \in 1..Len(sync[c].results.skipped) :
       /\ sync[c].results.skipped[e].reason = reason
       /\ ~ListedPending(sync[c].data, sync[c].results.skipped[e].address)
  /\ \A e \in 1..Len(sync[c].results.moved) :
       \E k \in 1..Len(sync[c].data) :
         /\ sync[c].data[k].path = FolderPath("pending")
         /\ NameMatches(sync[c].data[k].name)
         /\ MatchAddress(sync[c].data[k].name) = sync[c].results.moved[e].address
         /\ sync[c].results.moved[e].from = PathOf("pending", sync[c].data[k].name)
         /\ sync[c].results.moved[e].to = PathOf("approved", sync[c].data[k].name)

\* One skipped entry per address passed without a pending object, and one
\* moved entry per move that returned.
EntriesAreComplete(c) ==
  /\ Len(sync[c].results.skipped)
       = Cardinality({k \in 1..(sync[c].i - 1) :
                        ~ListedPending(sync[c].data, sync[c].limitedAddresses[k])})
  /\ Len(sync[c].results.moved)
       = Cardinality({j \in 1..Len(calls[c]) :
                        /\ calls[c][j].req = CurrentReq(c)
                        /\ calls[c][j].op = "delete" /\ calls[c][j].ok})

DeleteRefused(c) ==
  /\ pc[c] = "delete"
  /\ calls'[c] # calls[c]
  /\ ~calls'[c][Len(calls'[c])].ok

\* The refusal is recorded as an errors entry of the identifier with the
\* delete failure's message, no moved entry is added and the bucket is left
\* as it is.
Surfaced(c) ==
  /\ items' = items
  /\ sync'[c].results.moved = sync[c].results.moved
  /\ Len(sync'[c].results.errors) > Len(sync[c].results.errors)
  /\ sync'[c].results.errors[Len(sync[c].results.errors) + 1] =
       [address |-> sync[c].limitedAddresses[sync[c].i],
        error |-> <<"Failed to delete file: ", DeleteErrorText(items, move[c].fileUuid)>>]

\* The object of connection c's move is in the pending folder and an object
\* of its name is in the approved folder.
InBothFolders(c) ==
  \E f \in InFolder(items', "pending") :
    /\ f.fileUuid = move[c].fileUuid
    /\ \E g \in InFolder(items', "approved") : g.name = f.name

\* The completion call of connection c's move was answered with success.
CopyConfirmed(c) == calls[c][Len(calls[c])].reply = "confirmed"

\* C9 as stated: when the copy and its completion succeeded and the delete of
\* the source is refused, the refusal is recorded in errors (not in moved)
\* with the delete failure's message and the object is in both folders.
C9_AsStated ==
  [][\A c \in Conns : (DeleteRefused(c) /\ CopyConfirmed(c)) =>
       Surfaced(c) /\ InBothFolders(c)]_vars

\* C9 as amended: the refusal of the delete is always recorded in errors (not
\* in moved) with the delete failure's message; the object is in both folders
\* when the source was still there at the delete, which is not the case when
\* another mover of the same object deleted it first.
C9_DeleteFailureSurfaces ==
  [][\A c \in Conns : DeleteRefused(c) =>
       /\ Surfaced(c)
       /\ (CopyConfirmed(c) /\ Exists(items, move[c].fileUuid)) => InBothFolders(c)]_vars

\* A's copy was confirmed, the delete of pending/A.jpg was refused, and A.jpg
\* is in both folders, reported in errors.
C9_Witness ==
  \E c \in Conns : \E j \in 2..Len(calls[c]) :
    /\ calls[c][j].op = "delete" /\ ~calls[c][j].ok /\ calls[c][j].arg = 3
    /\ calls[c][j - 1].reply = "confirmed"
    /\ PendingA \in InFolder(items, "pending")
    /\ \E g \in InFolder(items, "approved") : g.name = Named(A, "jpg") /\ g.link = "bytes-A"
    /\ HasEntry(ResultsOf(c, calls[c][j].req).errors,
         [address |-> A, error |-> <<"Failed to delete file: ", "503">>])

\* Both connections found object u in their listing of the pending folder and
\* both set out to move it.
Raced(u) ==
  \A c \in Conns :
    /\ sync[c].i >= 1
    /\ \E k \in 1..Len(sync[c].data) :
         sync[c].data[k].fileUuid = u /\ sync[c].data[k].path = FolderPath("pending")
    /\ \E j \in 1..Len(calls[c]) :
         calls[c][j].req = CurrentReq(c) /\ calls[c][j].arg = u

\* C10: when two syncs race for the same object, each ends in a normal batch
\* result (200 with the three lists), and a connection whose delete of the
\* object is refused reports the identifier in its errors.
C10_RaceEndsInResults ==
  \A u \in 1..lastUuid : Raced(u) =>
    \A c \in Conns :
      /\ pc[c] = "idle" =>
           /\ IsSyncResult(responses[c][Len(responses[c])])
           /\ ResultsOf(c, Len(responses[c])) = sync[c].results
           /\ Total(sync[c].results) = Len(sync[c].limitedAddresses)
      /\ \A j \in 1..Len(calls[c]) :
           (calls[c][j].req = CurrentReq(c) /\ calls[c][j].op = "delete"
              /\ calls[c][j].arg = u /\ ~calls[c][j].ok) =>
             \E e \in 1..Len(sync[c].results.errors) :
               /\ sync[c].results.errors[e].address = AddressAt(c, calls[c][j])
               /\ sync[c].results.errors[e].error[1] = "Failed to delete file: "

\* Both raced for pending/A.jpg and both are done: one moved it, the other's
\* delete found it gone and A is in its errors.
C10_Witness ==
  /\ Raced(3)
  /\ \A c \in Conns : pc[c] = "idle"
  /\ \E c, d \in Conns :
       /\ c # d
       /\ AddressesIn(sync[c].results.moved) = {A}
       /\ HasEntry(sync[d].results.errors, [address |-> A, error |-> ThrownNotFound])

\* The listing of connection c's n-th request was answered OK: the request
\* went on to its identifiers.
Listed(c, n) ==
  \E j \in 1..Len(calls[c]) :
    calls[c][j].req = n /\ calls[c][j].op = "list" /\ calls[c][j].ok

\* A call made for an identifier of connection c's n-th request was refused.
ItemFailed(c, n) ==
  \E j \in 1..Len(calls[c]) :
    calls[c][j].req = n /\ calls[c][j].item > 0 /\ ~calls[c][j].ok

\* C11: a sync that reached its identifiers is answered 200 with success true
\* and the lists moved, skipped and errors holding one entry per processed
\* identifier, whatever call made for an identifier failed; no failure of an
\* identifier's move turns the answer into an error response.
C11_BatchAnswers200 ==
  \A c \in Conns : \A n \in 1..Len(responses[c]) :
    (Listed(c, n) \/ ItemFailed(c, n)) =>
      /\ IsSyncResult(responses[c][n])
      /\ responses[c][n].body.success
      /\ Total(ResultsOf(c, n)) = Len(Processed(responses[c][n]))
      /\ ItemFailed(c, n) => ResultsOf(c, n).errors # <<>>

\* A batch whose first identifier's move failed was answered 200 with that
\* identifier in errors and the other one moved.
C11_Witness ==
  \E c \in Conns : \E n \in 1..Len(responses[c]) :
    /\ ItemFailed(c, n)
    /\ responses[c][n].status = 200
    /\ Len(ResultsOf(c, n).errors) = 1
    /\ Len(ResultsOf(c, n).moved) = 1
\* The request fails the validation of the endpoint it names: a field of
\* /initiate missing or its folder none of the bucket's, the sessionUuid of
\* /complete missing, the addresses of the sync endpoint missing, no array or
\* empty.
FailsValidation(dep, r) ==
  /\ r.method = "POST" /\ ~OriginDenied(r.origin) /\ r.body.json
  /\ \/ /\ r.path = "/initiate"
        /\ \/ r.body.fileName = <<>>
           \/ r.body.contentType = ""
           \/ r.body.directoryPath \notin directories
     \/ r.path = "/complete" /\ r.body.sessionUuid = 0
     \/ /\ r.path = "/sync-approved-members" /\ dep = "sync-worker"
        /\ \/ r.body.addresses.kind # "array"
           \/ r.body.addresses.list = <<>>

\* C12: a request that fails validation is answered 400 and no backend call
\* is made for it: no handler waits for the backend on such a request, and
\* the answer to it is a 400 with no call logged.
C12_ValidationBeforeBackend ==
  \A c \in Conns :
    /\ pc[c] # "idle" => ~FailsValidation(deployment, request[c])
    /\ \A n \in 1..Len(responses[c]) :
         FailsValidation(deployment, responses[c][n].request) =>
           /\ responses[c][n].status = 400
           /\ responses[c][n].type = "json"
           /\ NoCallsFor(c, n)

\* A request to /initiate with its fields present and a folder that is none
\* of the bucket's was answered 400.
C12_Witness ==
  \E c \in Conns : \E n \in 1..Len(responses[c]) :
    /\ FailsValidation(deployment, responses[c][n].request)
    /\ responses[c][n].request.path = "/initiate"
    /\ responses[c][n].request.body.directoryPath = "other"
    /\ responses[c][n].request.body.fileName # <<>>
    /\ responses[c][n].request.body.contentType # ""
    /\ responses[c][n].status = 400
    /\ responses[c][n].body = Error("Invalid directoryPath")

\* The backend refused, or answered in an unexpected shape, the call made for
\* connection c's n-th request, a request to /initiate or /complete.
UpstreamFailed(c, n) ==
  /\ responses[c][n].request.path \in {"/initiate", "/complete"}
  /\ \E j \in 1..Len(calls[c]) : calls[c][j].req = n /\ calls[c][j].reply # "ok"
                                   /\ calls[c][j].reply # "confirmed"

\* C13: a request to /initiate or /complete whose backend call is refused or
\* answered in an unexpected shape ends in a JSON response {error, details?}
\* of status 500 or 502 carrying the origin echo, never in a failure no
\* handler caught.
C13_UpstreamErrorsAreWrapped ==
  \A c \in Conns : \A n \in 1..Len(responses[c]) :
    UpstreamFailed(c, n) =>
      /\ responses[c][n].type = "json"
      /\ responses[c][n].status \in {500, 502}
      /\ "error" \in DOMAIN responses[c][n].body

\* A request to /initiate that passed the guard with fileName and contentType
\* present.
NamesAFile(r) ==
  /\ r.method = "POST" /\ ~OriginDenied(r.origin) /\ r.path = "/initiate"
  /\ r.body.json /\ r.body.fileName # <<>> /\ r.body.contentType # ""

\* C14: /initiate accepts a folder exactly when it is pending, approved or
\* rejected: with fileName and contentType present the backend is asked to
\* open the session for each of these folders (and the answer is 200 when it
\* does), and any other folder is answered 400 with no backend call.
C14_FolderAcceptedIffRecognised ==
  \A c \in Conns : \A n \in 1..Len(responses[c]) :
    NamesAFile(responses[c][n].request) =>
      IF responses[c][n].request.body.directoryPath \in directories
      THEN \E j \in 1..Len(calls[c]) :
             /\ calls[c][j].req = n /\ calls[c][j].op = "initiate"
             /\ calls[c][j].ok => responses[c][n].status = 200
      ELSE responses[c][n].status = 400 /\ NoCallsFor(c, n)

\* The objects of the bucket its that carry the name under the path.
Named_In(its, name, path) ==
  {k \in 1..Len(its) : its[k].name = name /\ its[k].path = path}

\* No folder holds two objects of the same name.
NamesAreUnique ==
  \A k \in 1..Len(items) : Named_In(items, items[k].name, items[k].path) = {k}

\* The step in which connection c's /complete is answered: a 200 is the
\* answer to the completion of an open session, whose object is then the one
\* object of its name in its folder; any other answer (the session unknown or
\* completed before, or the completion not confirmed) leaves the bucket as it
\* is.
CompletionInstalls ==
  \A c \in Conns :
    (pc[c] = "completeUpload" /\ responses'[c] # responses[c]) =>
      LET s == request[c].body.sessionUuid IN
      IF responses'[c][Len(responses'[c])].status = 200
      THEN /\ s \in 1..Len(sessions) /\ sessions[s].open
           /\ \E k \in 1..Len(items') :
                /\ items'[k].fileUuid = sessions[s].fileUuid
                /\ Named_In(items', sessions[s].fileName, sessions[s].path) = {k}
      ELSE items' = items

Retried(c) ==
  /\ CurrentReq(c) >= 2 /\ sync[c].i >= 1
  /\ IsSyncResult(responses[c][CurrentReq(c) - 1])
  /\ RequestOf(c, CurrentReq(c)) = responses[c][CurrentReq(c) - 1].request

\* The addresses for which the current request of c made a backend call.
Attempted(c) ==
  {AddressAt(c, calls[c][k]) :
     k \in {j \in 1..Len(calls[c]) :
              calls[c][j].req = CurrentReq(c) /\ calls[c][j].item > 0}}

C17_OriginEchoed ==
  \A c \in Conns : \A n \in 1..Len(responses[c]) :
    IF OriginDenied(responses[c][n].request.origin)
    THEN /\ responses[c][n].allowOrigin = NoOrigin
         /\ "details" \notin DOMAIN responses[c][n].body
         /\ "exception" \notin DOMAIN responses[c][n].body
    ELSE responses[c][n].allowOrigin = responses[c][n].request.origin

\* The headers of the answer to an allowed preflight.
PreflightHeaders ==
  [methods |-> "POST, OPTIONS", headers |-> "Content-Type", maxAge |-> 86400]

\* C18: an OPTIONS request is answered at once with no backend call, on any
\* path, and for an allow-listed origin with 204, the origin echo, the
\* allowed methods and headers and the max-age; every other request meets the
\* origin guard before any other work, so that one with a denied origin gets
\* the guard's 403 and nothing else is done for it.
C18_PreflightAndGuardFirst ==
  \A c \in Conns :
    /\ pc[c] # "idle" =>
         request[c].method # "OPTIONS" /\ ~OriginDenied(request[c].origin)
    /\ \A n \in 1..Len(responses[c]) :
         IF responses[c][n].request.method = "OPTIONS"
         THEN /\ NoCallsFor(c, n)
              /\ ~OriginDenied(responses[c][n].request.origin) =>
                   /\ responses[c][n].status = 204
                   /\ responses[c][n].allowOrigin = responses[c][n].request.origin
                   /\ responses[c][n].cors = PreflightHeaders
         ELSE OriginDenied(responses[c][n].request.origin) =>
                /\ responses[c][n].status = 403
                /\ responses[c][n].body = Error("Unauthorized origin")
                /\ NoCallsFor(c, n)

\* The addresses the gallery sent are society members with an object in the
\* pending folder when the gallery listed it, at most 50 of them.
SentMembersWithPending ==
  /\ Len(gallery.addresses) <= 50
  /\ \A k \in 1..Len(gallery.addresses) :
       /\ gallery.addresses[k] \in gallery.chain
       /\ \E j \in 1..Len(gallery.allFiles) :
            /\ InPendingPath(gallery.allFiles[j].path)
            /\ StripExtension(gallery.allFiles[j].name) = gallery.addresses[k]

\* C19: every address the gallery sends to the sync endpoint is a society
\* member other than the founder with an object in the pending folder when
\* the gallery listed it, and at most 50 addresses are sent in a request.
C19_GallerySendsMembers ==
  /\ SentMembersWithPending
  /\ \A k \in 1..Len(gallery.addresses) : gallery.addresses[k] # Founder

\* ---- C20 ----
\* The names the migration fetched from the bucket before its downloads.
InExistingFiles(name) ==
  \E j \in 1..Len(migration.existingFiles) : migration.existingFiles[j] = name

\* The entries of the download list that Step 8's loop is through with.
Accounted ==
  IF migration.pc = "summary" THEN Len(migration.downloadedFiles)
  ELSE migration.i - 1

\* Each downloaded file the upload loop is through with was counted once, as
\* uploaded, skipped or failed; a run that returns with nothing to upload
\* has reported every downloaded file as one to skip.
AccountedOnce ==
  /\ migration.pc \in {"initiate", "put", "end", "summary"} =>
        /\ migration.uploadSuccessful + migration.uploadSkipped
              + migration.uploadFailed = Accounted
        /\ migration.uploadSuccessful = Len(migration.uploads)
        /\ migration.uploadFailed = Len(migration.uploadErrors)
        /\ migration.uploadSkipped =
              Cardinality({k \in 1..Accounted :
                             InExistingFiles(migration.downloadedFiles[k])})
  /\ migration.pc = "summary" =>
        /\ migration.uploadSkipped = migration.filesToSkip
        /\ migration.uploadSuccessful + migration.uploadFailed
              = migration.filesToUpload
  /\ migration.pc = "nothing" =>
        /\ migration.filesToSkip = Len(migration.downloadedFiles)
        /\ migration.filesToUpload = 0
        /\ sessions = <<>>

StepOf(op) ==
  IF op = "download" THEN 1 ELSE IF op = "initiate" THEN 2
  ELSE IF op = "put" THEN 3 ELSE IF op = "complete" THEN 4 ELSE 5

\* The calls of a move are a run of download, initiate, put, complete, delete
\* cut at its first failed call: a download opens the run, and every other
\* call directly follows the call of the step before it, answered OK. The
\* object a request is moving has a retrieval link.
C21_InOrder ==
  \A c \in Conns :
    /\ \A j \in 1..Len(calls[c]) :
         calls[c][j].item > 0 =>
           IF calls[c][j].op = "download"
           THEN j > 1 => ~SameMove(calls[c][j - 1], calls[c][j])
           ELSE /\ j > 1
                /\ SameMove(calls[c][j - 1], calls[c][j])
                /\ calls[c][j - 1].ok
                /\ calls[c][j - 1].item > 0
                /\ StepOf(calls[c][j - 1].op) + 1 = StepOf(calls[c][j].op)
    /\ pc[c] \in CopySteps \cup {"delete"} =>
         sync[c].pendingMap[sync[c].limitedAddresses[sync[c].i]].link # NoLink

\* The session a move opens is a new one, for the name of the source object,
\* under approved/.
C21_FreshSession ==
  \A c \in Conns :
    (pc[c] = "initiate" /\ calls'[c] # calls[c] /\ sessions' # sessions) =>
      /\ Len(sessions') = Len(sessions) + 1
      /\ SubSeq(sessions', 1, Len(sessions)) = sessions
      /\ move'[c].session = Len(sessions')
      /\ sessions'[Len(sessions')].fileName =
           sync[c].pendingMap[sync[c].limitedAddresses[sync[c].i]].fileName
      /\ sessions'[Len(sessions')].path = FolderPath("approved")
      /\ sessions'[Len(sessions')].written = NoBlob

C22_UnconfirmedCompletionStops ==
  \A c \in Conns : \A j \in 1..Len(calls[c]) :
    (calls[c][j].op = "complete" /\ calls[c][j].reply = "unconfirmed"
       /\ calls[c][j].item > 0) =>
      /\ j < Len(calls[c]) => ~SameMove(calls[c][j + 1], calls[c][j])
      /\ AddressAt(c, calls[c][j]) \notin AddressesIn(ResultsOf(c, calls[c][j].req).moved)

\* ---- C23 ----
\* C23: the files listFilesInFolder returns for pending are exactly the
\* objects of the listing whose recorded path is "pending/", each once, in
\* listing order, with its name, fileUuid and link: an object without a
\* path, in another folder or in a sub-path of pending/ is left out.
C23_ExactPathOnly ==
  \A c \in Conns :
    sync[c].i >= 1 =>
      LET exact == {k \in 1..Len(sync[c].data) :
                      sync[c].data[k].path = <<"pending", "/">>}
          files == sync[c].pendingFiles
      IN /\ Len(files) = Cardinality(exact)
         /\ \A k \in exact : \E n \in 1..Len(files) :
              /\ files[n].uuid = sync[c].data[k].fileUuid
              /\ files[n].name = sync[c].data[k].name
              /\ files[n].link = sync[c].data[k].link
              /\ n = Cardinality({j \in exact : j <= k})

\* A request listed a bucket that holds an object in a sub-path of pending/
\* and got the two objects of pending/ itself.
C23_Witness ==
  \E c \in Conns :
    /\ sync[c].i >= 1
    /\ \E k \in 1..Len(sync[c].data) :
         sync[c].data[k].path = <<"pending", "/", "sub", "/">>
    /\ Len(sync[c].pendingFiles) = 2

\* ---- C24 ----
\* The name has an extension: a last "." with something before it and
\* something after it.
HasExtension(name) ==
  \E d \in 1..Len(name) :
    /\ name[d] = DOT /\ d > 1 /\ d < Len(name)
    /\ \A e \in (d + 1)..Len(name) : name[e] # DOT

BeforeLastDot(name) ==
  SubSeq(name, 1, (CHOOSE d \in 1..Len(name) :
                     name[d] = DOT /\ \A e \in (d + 1)..Len(name) : name[e] # DOT) - 1)

\* C24: the identifiers a sync request can move are the names of the listed
\* pending files cut at their last "." ("A.b.jpg" gives "A.b"), for the
\* files whose name has an extension; a pending object whose name has none
\* (no ".", nothing before its only ".", nothing after its last ".") stays in
\* the bucket as it is and no download or delete is ever issued for it.
C24_SplitAtLastDot ==
  \A c \in Conns :
    sync[c].i >= 1 =>
      /\ DOMAIN sync[c].pendingMap =
           {BeforeLastDot(sync[c].pendingFiles[k].name) :
              k \in {n \in 1..Len(sync[c].pendingFiles) :
                       HasExtension(sync[c].pendingFiles[n].name)}}
      /\ \A a \in DOMAIN sync[c].pendingMap :
           /\ HasExtension(sync[c].pendingMap[a].fileName)
           /\ sync[c].pendingMap[a].fileName
                = a \o <<DOT>> \o sync[c].pendingMap[a].extension
           /\ \A e \in 1..Len(sync[c].pendingMap[a].extension) :
                sync[c].pendingMap[a].extension[e] # DOT
      /\ \A k \in 1..Len(sync[c].pendingFiles) :
           ~HasExtension(sync[c].pendingFiles[k].name) =>
             /\ \E n \in 1..Len(items) :
                  /\ items[n].fileUuid = sync[c].pendingFiles[k].uuid
                  /\ items[n].name = sync[c].pendingFiles[k].name
                  /\ items[n].path = FolderPath("pending")
             /\ \A j \in 1..Len(calls[c]) :
                  calls[c][j].item > 0 => calls[c][j].arg # sync[c].pendingFiles[k].uuid

\* The object A.b.jpg was moved for the address "A.b".
C24_Witness ==
  \E c \in Conns :
    /\ sync[c].results.moved # <<>>
    /\ sync[c].results.moved[1].address = <<"A", ".", "b">>
    /\ sync[c].results.moved[1].from = <<"pending", "/", "A", ".", "b", ".", "jpg">>
    /\ \E n \in 1..Len(items) :
         items[n].name = <<"A", ".", "b", ".", "jpg">> /\ items[n].path = FolderPath("approved")

\* ---- C25 ----
\* A request's listing call is the first call of the request, the calls of
\* its moves come after it and after nothing but it and each other, and the
\* map the request works from holds objects of that listing's pending folder
\* only.
C25_ListedOnceFirst ==
  \A c \in Conns :
    /\ \A j \in 1..Len(calls[c]) :
         /\ calls[c][j].op = "list" =>
              (j > 1 => calls[c][j - 1].req # calls[c][j].req)
         /\ calls[c][j].item > 0 =>
              /\ j > 1
              /\ calls[c][j - 1].req = calls[c][j].req
              /\ calls[c][j - 1].item > 0
                   \/ (calls[c][j - 1].op = "list" /\ calls[c][j - 1].ok)
    /\ \A a \in DOMAIN sync[c].pendingMap :
         \E k \in 1..Len(sync[c].data) :
           /\ sync[c].data[k].path = FolderPath("pending")
           /\ sync[c].data[k].fileUuid = sync[c].pendingMap[a].fileUuid
           /\ sync[c].data[k].name = sync[c].pendingMap[a].fileName
           /\ sync[c].data[k].link = sync[c].pendingMap[a].link
    /\ \A e \in 1..Len(sync[c].results.moved) :
         ListedPending(sync[c].data, sync[c].results.moved[e].address)
    /\ \A e \in 1..Len(sync[c].results.skipped) :
         ~ListedPending(sync[c].data, sync[c].results.skipped[e].address)

\* The listing a request takes is the bucket as it is at that moment,
\* whatever an earlier request of the connection saw, and the request's map
\* has the identifiers of that bucket's pending objects.
C25_ListingIsFresh ==
  \A c \in Conns :
    (pc[c] = "list" /\ calls'[c] # calls[c] /\ pc'[c] # "idle") =>
      /\ sync'[c].data = items
      /\ \A a \in {A, B} : a \in DOMAIN sync'[c].pendingMap <=> ListedPending(items, a)

\* C25: a sync request lists the pending folder exactly once, before any
\* move, and works from that listing only; nothing of an earlier request's
\* listing is used, so the bucket as it is when the second of two requests
\* lists it decides the second request's outcomes.
C25_OneListingPerRequest == []C25_ListedOnceFirst /\ [][C25_ListingIsFresh]_vars

\* The first sync of A skipped it, an upload of A's image to pending/ was
\* completed, and the second sync of A moved it.
C25_Witness ==
  /\ Len(responses["c1"]) = 2
  /\ IsSyncResult(responses["c1"][1]) /\ IsSyncResult(responses["c1"][2])
  /\ responses["c1"][1].body.skipped = <<SkippedEntry(A)>>
  /\ AddressesIn(responses["c1"][2].body.moved) = {A}
  /\ Len(SelectSeq(calls["c1"], LAMBDA x : x.op = "list")) = 2

\* ---- C26 ----
\* The positions of the input can be dealt out to the three lists, each
\* position to one list, so that each list holds, in input order, the
\* addresses of the positions dealt to it. Only a position whose address
\* is in moved or errors can go to one of these two.
DealtInOrder(l, res) ==
  LET idx == [k \in 1..Len(l) |-> k]
      cand == {k \in 1..Len(l) :
                 \/ \E e \in 1..Len(res.moved) : res.moved[e].address = l[k]
                 \/ \E e \in 1..Len(res.errors) : res.errors[e].address = l[k]}
      At(P) == SelectSeq(idx, LAMBDA k : k \in P)
      Same(es, pos) ==
        /\ Len(es) = Len(pos)
        /\ \A j \in 1..Len(es) : es[j].address = l[pos[j]]
  IN \E Pm \in SUBSET cand : \E Pe \in SUBSET (cand \ Pm) :
       /\ Same(res.moved, At(Pm))
       /\ Same(res.errors, At(Pe))
       /\ Same(res.skipped, At((1..Len(l)) \ (Pm \cup Pe)))

\* C26: in every 200 sync response moved, skipped and errors hold together
\* as many entries as addresses were submitted, 50 at most; each of the
\* first 50 positions of the input gives exactly one entry, and the entries
\* of each list stand in input order.
C26_OneEntryPerPosition ==
  \A c \in Conns : \A n \in 1..Len(responses[c]) :
    IsSyncResult(responses[c][n]) =>
      LET l == responses[c][n].request.body.addresses.list
          first == [k \in 1..(IF Len(l) < 50 THEN Len(l) ELSE 50) |-> l[k]]
      IN /\ Len(responses[c][n].body.moved) + Len(responses[c][n].body.skipped)
              + Len(responses[c][n].body.errors) = Len(first)
         /\ DealtInOrder(first, responses[c][n].body)

\* A list of more than 50 addresses was answered with 50 entries, A and B
\* moved in the order they were submitted in, B before A.
C26_Witness ==
  \E c \in Conns : \E n \in 1..Len(responses[c]) :
    /\ IsSyncResult(responses[c][n])
    /\ Len(responses[c][n].request.body.addresses.list) > 50
    /\ Len(responses[c][n].body.moved) = 2
    /\ responses[c][n].body.moved[1].address = B
    /\ responses[c][n].body.moved[2].address = A
    /\ Len(responses[c][n].body.skipped) = 48

\* ---- C27 ----
\* The objects of the bucket outside pending/ and approved/.
Elsewhere(its) ==
  {its[k] : k \in {j \in 1..Len(its) :
                     its[j].path \notin {FolderPath("pending"), FolderPath("approved")}}}

\* The pending object the move connection c has in hand was listed under.
SourceOf(c) == sync[c].pendingMap[sync[c].limitedAddresses[sync[c].i]]

\* A step of a sync request changes the bucket only for the object of the
\* address in hand: nothing outside pending/ and approved/ changes, nothing
\* is added to pending/ and what leaves it is the listed object of that
\* address, and what changes in approved/ carries the name of that object.
C27_StepTouchesItsObject ==
  \A c \in Conns :
    (pc[c] \in CopySteps \cup {"list", "delete"} /\ calls'[c] # calls[c]) =>
      /\ Elsewhere(items') = Elsewhere(items)
      /\ InFolder(items', "pending") \subseteq InFolder(items, "pending")
      /\ pc[c] = "list" => items' = items
      /\ pc[c] # "list" =>
           /\ \A f \in InFolder(items, "pending") \ InFolder(items', "pending") :
                /\ f.fileUuid = SourceOf(c).fileUuid
                /\ f.fileUuid = calls'[c][Len(calls'[c])].arg
                /\ \E k \in 1..Len(sync[c].data) :
                     /\ sync[c].data[k].fileUuid = f.fileUuid
                     /\ sync[c].data[k].name = sync[c].limitedAddresses[sync[c].i] \o <<DOT>> \o SourceOf(c).extension
           /\ \A f \in (InFolder(items', "approved") \ InFolder(items, "approved"))
                         \cup (InFolder(items, "approved") \ InFolder(items', "approved")) :
                f.name = SourceOf(c).fileName
           /\ calls'[c][Len(calls'[c])].arg = SourceOf(c).fileUuid

\* C27: a sync request touches only the objects it was asked about: a pending
\* object whose identifier is not the address in hand is neither downloaded,
\* copied nor deleted, no object of the rejected folder (or of any path but
\* pending/ and approved/) is changed, and in approved/ only an object with
\* the name of the source in hand is created or replaced.
C27_SyncTouchesOnlyItsObjects == [][C27_StepTouchesItsObject]_vars

\* A sync of A alone has moved A.jpg over the approved A.jpg: B's image is
\* still pending, and the rejected A.jpg is as it was.
C27_Witness ==
  /\ Len(responses["c1"]) = 1
  /\ responses["c1"][1].request = SyncReq(<<A>>)
  /\ IsSyncResult(responses["c1"][1])
  /\ AddressesIn(responses["c1"][1].body.moved) = {A}
  /\ PendingB \in InFolder(items, "pending")
  /\ File(Named(A, "jpg"), 4, FolderPath("rejected"), "bytes-A0") \in InFolder(items, "rejected")
  /\ \A f \in InFolder(items, "pending") : f.name # Named(A, "jpg")
  /\ \E f \in InFolder(items, "approved") : f.name = Named(A, "jpg") /\ f.link = "bytes-A"

\* ---- C28 ----
\* C28: where no upload has been started, once a sync response reports an
\* identifier in moved the pending folder holds no object of that
\* identifier, whatever the pending folder held when it was listed.
C28_MovedLeavesNothingPending ==
  (\A s \in 1..Len(sessions) : ~sessions[s].client) =>
    \A c \in Conns : \A n \in 1..Len(responses[c]) :
      IsSyncResult(responses[c][n]) =>
        \A e \in 1..Len(responses[c][n].body.moved) :
          \A f \in InFolder(items, "pending") :
            ~(NameMatches(f.name)
                /\ MatchAddress(f.name) = responses[c][n].body.moved[e].address)

\* ---- C29 ----
\* The delete of a move removes an object only when the session the move
\* opened under approved/ was finalised with that object's bytes.
C29_DeleteRemovesCopiedContent ==
  \A c \in Conns :
    (pc[c] = "delete" /\ calls'[c] # calls[c]) =>
      \A f \in {items[k] : k \in 1..Len(items)} \ {items'[k] : k \in 1..Len(items')} :
        /\ ~sessions[move[c].session].open
        /\ sessions[move[c].session].written = f.link
        /\ sessions[move[c].session].path = FolderPath("approved")

\* C29: no upload is lost to a concurrent move: the delete of a move never
\* removes content that was not copied to the approved folder, so the bytes
\* of a replacement upload completed while the move is in flight are still
\* in the pending or the approved folder when both are done.
C29_NoContentLostToMove == [][C29_DeleteRemovesCopiedContent]_vars

\* ---- C30 ----
\* A's image is in the approved folder and not in the pending folder.
Promoted ==
  /\ \E f \in InFolder(items, "approved") : f.name = Named(A, "jpg")
  /\ \A f \in InFolder(items, "pending") : f.name # Named(A, "jpg")

\* A sync answered with its results once A's image is promoted reports A as
\* skipped, and as nothing else (a sync whose listing fails has no results;
\* A is the last address of a sync, so the sync that promotes A is answered
\* in the step that promotes it).
SkippedOncePromoted ==
  (/\ Promoted /\ Len(responses'["c1"]) > Len(responses["c1"])
   /\ IsSyncResult(responses'["c1"][Len(responses'["c1"])])) =>
    LET body == responses'["c1"][Len(responses'["c1"])].body
    IN /\ \E k \in 1..Len(body.skipped) : body.skipped[k] = SkippedEntry(A)
       /\ \A k \in 1..Len(body.moved) : body.moved[k].address # A
       /\ \A k \in 1..Len(body.errors) : body.errors[k].address # A

\* C30: when the caller keeps sending the sync of A, whose image is pending
\* (or pending and approved, after a refused delete), and the backend stops
\* failing, A's image ends up in the approved folder and out of the pending
\* folder for good, and every sync of A from then on reports A as skipped.
C30_PromotionCompletes == <>[]Promoted /\ [][SkippedOncePromoted]_vars

\* ---- C31 ----
\* C31: a sync request whose listing of the pending folder was refused by
\* the backend is answered 500 with success false, error 'Sync failed' and
\* the listing's error message as details; the refused listing is the only
\* backend call of the request, and the answer names no address as moved,
\* skipped or failed.
C31_FailedListingFailsTheSync ==
  \A c \in Conns :
    \A j \in 1..Len(calls[c]) :
      (calls[c][j].op = "list" /\ ~calls[c][j].ok) =>
        /\ \A k \in 1..Len(calls[c]) : calls[c][k].req = calls[c][j].req => k = j
        /\ calls[c][j].req <= Len(responses[c])
        /\ LET r == responses[c][calls[c][j].req]
           IN /\ r.request.path = "/sync-approved-members"
              /\ r.status = 500 /\ r.type = "json"
              /\ r.body = [success |-> FALSE, error |-> "Sync failed",
                           details |-> <<"Failed to list files: ", "503">>]
              /\ DOMAIN r.body \cap {"moved", "skipped", "errors"} = {}

\* A sync of A, whose image is pending, was answered 500 because its
\* listing was refused, and the image is still pending.
C31_Witness ==
  /\ Len(responses["c1"]) >= 1
  /\ responses["c1"][1].request.path = "/sync-approved-members"
  /\ A \in Elements(Processed(responses["c1"][1]))
  /\ responses["c1"][1].status = 500
  /\ Len(calls["c1"]) >= 1
  /\ calls["c1"][1].op = "list" /\ ~calls["c1"][1].ok /\ calls["c1"][1].req = 1
  /\ ListedPending(items, A)

\* ---- C32 ----
\* C32: a request from an allowed origin to /initiate, /complete or
\* /sync-approved-members whose method is neither POST nor OPTIONS makes no
\* backend call and is answered with an error.
C32_OnlyPostReachesBackend ==
  \A c \in Conns :
    /\ \A j \in 1..Len(calls[c]) :
         LET r == RequestOf(c, calls[c][j].req)
         IN (/\ ~OriginDenied(r.origin)
             /\ r.path \in {"/initiate", "/complete", "/sync-approved-members"}) =>
              r.method \in {"POST", "OPTIONS"}
    /\ \A n \in 1..Len(responses[c]) :
         LET r == responses[c][n].request
         IN (/\ ~OriginDenied(r.origin)
             /\ r.path \in {"/initiate", "/complete", "/sync-approved-members"}
             /\ r.method \notin {"POST", "OPTIONS"}) =>
              responses[c][n].status >= 400

\* ---- C33 ----
\* What the submit page's client has sent so far keeps the order of the
\* protocol: a PUT follows the POST /initiate that named its URL, and a POST
\* /complete follows the PUT of its own session, which wrote the file.
C33_InOrder ==
  \A j \in 1..Len(submit.sent) :
    /\ submit.sent[j].op = "put" =>
         /\ j > 1
         /\ submit.sent[j - 1].op = "initiate"
         /\ submit.sent[j].arg \in 1..Len(sessions)
         /\ sessions[submit.sent[j].arg].path = FolderPath(submit.sent[j - 1].arg)
    /\ submit.sent[j].op = "complete" =>
         /\ j > 1
         /\ submit.sent[j - 1] = [op |-> "put", arg |-> submit.sent[j].arg]
         /\ sessions[submit.sent[j].arg].written # NoBlob

\* How uploadFile ends: on a POST /initiate answered with an error, and on a
\* PUT that failed, with the error and with nothing more sent; on the answer
\* to POST /complete with success, which is '(processing...)' when the
\* worker rejected the completion.
C33_Ends ==
  /\ (submit.pc = "initiate" /\ submit'.pc # "initiate"
        /\ responses["c2"][submit.awaited].status # 200) =>
       /\ submit'.pc = "ready" /\ submit'.toast = "Upload failed"
       /\ submit'.sent = submit.sent /\ inbox' = inbox
  /\ (submit.pc = "put" /\ submit'.pc # "put"
        /\ sessions'[submit.uploadUrl].written = NoBlob) =>
       /\ submit'.pc = "ready" /\ submit'.toast = "Upload failed"
       /\ inbox' = inbox
  /\ (submit.pc = "complete" /\ submit'.pc # "complete") =>
       /\ submit'.pc = "ready" /\ ~submit'.uploading
       /\ submit'.toast = IF responses["c2"][submit.awaited].status = 200
                          THEN "Upload successful"
                          ELSE "Upload successful (processing...)"

\* C33: uploadFile sends POST /initiate, then the PUT to the URL it was
\* given, then POST /complete, in that order; when the initiate or the PUT
\* fails it raises an error and sends no POST /complete for the session; a
\* POST /complete the worker rejects still ends in success.
C33_TwoPhaseUpload == []C33_InOrder /\ [][C33_Ends]_vars

\* An upload ran through its three requests, the worker rejected the
\* completion, and the upload ended in success.
C33_Witness ==
  /\ submit.pc = "ready"
  /\ submit.toast = "Upload successful (processing...)"
  /\ Len(submit.sent) = 3
  /\ submit.sent[3].op = "complete"
  /\ responses["c2"][submit.awaited].status = 500

\* ---- C34 ----
\* A step of the submit page: an upload it starts for a user who is a
\* candidate and no member targets the pending folder, it starts none for a
\* user who is neither, and a declined confirmation sends nothing and
\* leaves uploading cleared.
C34_Step ==
  /\ Len(submit'.sent) > Len(submit.sent) =>
       LET x == submit'.sent[Len(submit'.sent)]
       IN x.op = "initiate" =>
            /\ submit.onChain # "neither"
            /\ submit.onChain = "candidate" => x.arg = "pending"
            /\ submit.onChain = "member" => x.arg = "approved"
  /\ (submit.pc = "listing" /\ submit'.pc = "ready" /\ faults' = faults) =>
       /\ submit'.sent = submit.sent /\ inbox' = inbox
       /\ ~submit'.uploading

\* C34: in the submit flow a member uploads to the approved folder and a
\* candidate to the pending folder: a user who is a candidate and no member
\* never starts an upload to the approved folder, a user who is neither
\* starts no upload, and declining the replace confirmation starts no upload
\* and leaves the uploading flag cleared.
C34_MembersApprovedCandidatesPending == [][C34_Step]_vars

\* ---- C35 ----
\* C35: between two loads of the gallery page the auto-sync effect starts at
\* most one run of syncApprovedMembers, whatever member lists arrive and
\* whenever its request is answered, and so at most one sync request is
\* sent.
C35_OneSyncPerPageLoad ==
  /\ Len(gallery.runs) <= 1
  /\ Cardinality({k \in 1..Len(gallery.runs) : gallery.runs[k].sent > 0}) <= 1
====
